---- MODULE Spec2Model ----
(***************************************************************************)
(* State-machine model of the HandTracking component (gesture interpreter, *)
(* scene model, chart animation director and the caller side of the data   *)
(* join engine).                                                           *)
(*                                                                         *)
(* Normalized coordinates (0..1 in the source) are fixed-point integers in *)
(* thousandths: 0.05 is 50, 0.95 is 950, 1 is One.  Every landmark the     *)
(* model feeds in has even coordinates, so the midpoint (a + b) / 2 is an  *)
(* integer and all arithmetic below is exact.  Times are milliseconds.     *)
(***************************************************************************)
EXTENDS Integers, Sequences, FiniteSets, TLC

VARIABLES
    availableTables,        \* useSupabaseTables().tables
    relationships,          \* useSupabaseTables().relationships
    tablesLoading,          \* useSupabaseTables().loading
    tablesRef,              \* tablesRef.current : sequence of TableObject
    tablesInitialized,      \* tablesInitialized.current
    draggedTableRef,        \* draggedTableRef.current (0 is null, else table id)
    droppedTablesRef,       \* droppedTablesRef.current
    generateButtonHoverRef, \* generateButtonHoverRef.current
    buttonClickedRef,       \* buttonClickedRef.current
    pinchStateRef,          \* pinchStateRef.current
    swipeStateRef,          \* swipeStateRef.current
    showChart,              \* React state showChart
    chartAnimationState,    \* React state chartAnimationState
    chartAnimationStartRef, \* chartAnimationStartRef.current
    chartData,              \* React state chartData
    toast,                  \* React state toast ("none" is null)
    loadingData,            \* React state loadingData
    now,                    \* Date.now()
    timers,                 \* pending setTimeout callbacks
    fetches,                \* fetchTableData invocations that have not returned
    view,                   \* what renderChartView drew last on the chart canvas
    effects,                \* instances of the tracking effect, oldest first
    last                    \* what the render tick just taken did (observation)

sceneVars == <<tablesRef, tablesInitialized, draggedTableRef, droppedTablesRef,
               generateButtonHoverRef, buttonClickedRef, pinchStateRef>>
hookVars  == <<availableTables, relationships, tablesLoading>>
chartVars == <<showChart, chartAnimationState, chartAnimationStartRef, chartData>>
vars == <<availableTables, relationships, tablesLoading, tablesRef,
          tablesInitialized, draggedTableRef, droppedTablesRef,
          generateButtonHoverRef, buttonClickedRef, pinchStateRef,
          swipeStateRef, showChart, chartAnimationState,
          chartAnimationStartRef, chartData, toast, loadingData, now, timers,
          fetches, view, effects, last>>

----------------------------------------------------------------------------
(* Program constants                                                       *)

One == 1000
PinchThreshold == 50
ClampMin == 50
ClampMax == 950
DropZone == [x |-> 500, y |-> 700, width |-> 300, height |-> 200]
CanvasWidth == 1200
CanvasHeight == 800
ButtonOffsetPx == 60
ButtonWidthPx == 120
ButtonHeightPx == 40
TableHitPx == 60
TableStartX == 100
TableSpacingX == 150
TableStartY == 100
DefaultTables == <<"users", "posts", "comments", "products">>
SwipeMinDeltaX == 300
SwipeMaxDeltaY == 200
SwipeMaxTime == 1000
ToastDuration == 3000
ChartDelay == 500
EnterDuration == 800
ExitDuration == 600
EnterAnimationMs == 800
ExitAnimationMs == 600

(* Bounds of the model                                                     *)

MaxTime == 3000
MaxFetches == 2
MaxEffects == 3

----------------------------------------------------------------------------
(* Arithmetic helpers                                                      *)

Abs(n) == IF n < 0 THEN -n ELSE n
Min(a, b) == IF a < b THEN a ELSE b
Max(a, b) == IF a > b THEN a ELSE b

\* Math.pow(a.x - b.x, 2) + Math.pow(a.y - b.y, 2)
DistSq(a, b) == (a.x - b.x) * (a.x - b.x) + (a.y - b.y) * (a.y - b.y)

\* Math.sqrt(dsq) < limit, for limit >= 0 (the square root is monotone)
SqrtLess(dsq, limit) == dsq < limit * limit

RECURSIVE GCD(_, _)
GCD(a, b) == IF b = 0 THEN a ELSE GCD(b, a % b)

\* Every setTimeout delay and the swipe window are multiples of TimeStep, so a
\* clock that moves in TimeStep steps visits every deadline exactly.
TimeStep == GCD(GCD(GCD(ChartDelay, ExitDuration), GCD(EnterDuration, ToastDuration)),
                SwipeMaxTime)

----------------------------------------------------------------------------
(* Landmark frames delivered by the detector                               *)

\* A hand keeps the three landmarks the render loop reads: 4 (thumb tip),
\* 8 (index tip) and the y of 6 (index PIP joint).
Hand(tx, ty, ix, iy, pipY) ==
    [thumb |-> [x |-> tx, y |-> ty], index |-> [x |-> ix, y |-> iy], pip |-> pipY]

\* A closed pinch whose (mirrored) centre is (cx, cy); the finger is curled.
PinchAt(cx, cy) == Hand(One - cx, cy, One - cx, cy, 0)

PinchOnTable1 == PinchAt(100, 100)
PinchInZone   == PinchAt(500, 700)
\* thumb and index 40 x 28 apart: sqrt(2384) < 50, centre (700, 700)
PinchOnButton == Hand(320, 714, 280, 686, 0)
PinchFarOut   == PinchAt(1000, 1000)
\* thumb and index 30 x 40 apart: distance exactly 50. Index extended.
SwipeStart    == Hand(930, 540, 900, 500, 600)
\* index tip 300 to the side of SwipeStart
SwipeEdge     == Hand(630, 540, 600, 500, 600)
\* index tip 350 to the side of SwipeStart
SwipeFar      == Hand(580, 540, 550, 500, 600)
\* index tip 350 to the side and 200 below SwipeStart
SwipeSlanted  == Hand(580, 740, 550, 700, 800)
\* open hand, index curled (tip below the PIP joint)
OpenCurled    == Hand(400, 700, 300, 600, 500)

\* results.multiHandLandmarks as left in handResultsRef by hands.onResults:
\* zero, one or two hands (maxNumHands: 2).  onResults assigns the whole
\* result at once and only renderLoop reads it, so the frame a tick reads is
\* any frame the detector can deliver.  The scene branch reads only the thumb
\* and index tips, the chart branch only the index finger of the first hand.

\* Frames of a user working the scene with one or two hands
GestureFrames == {<<>>,
                  <<PinchOnTable1>>, <<PinchInZone>>, <<PinchOnButton>>,
                  <<PinchFarOut>>, <<SwipeStart>>, <<OpenCurled>>,
                  <<PinchOnButton, OpenCurled>>, <<OpenCurled, PinchOnButton>>,
                  <<PinchInZone, PinchFarOut>>}

\* Frames of a user swiping at the chart
SwipeFrames == {<<>>, <<SwipeStart>>, <<SwipeEdge>>, <<SwipeFar>>,
                <<SwipeSlanted>>, <<OpenCurled>>}

\* What useSupabaseTables can report once loaded: no tables at all (the
\* component falls back to its default set), or seven tables
SevenTables == <<"events", "registrations", "users", "posts", "comments",
                 "products", "orders">>
NoTables == [tables |-> <<>>, relationships |-> {}]
HookResults ==
    { NoTables,
      [tables |-> SevenTables,
       relationships |-> {<<"registrations", "events">>, <<"posts", "users">>}] }

----------------------------------------------------------------------------
(* Geometry of the scene, in normalized units                              *)

\* dropZoneX + dropZoneWidth / 2 + 60, divided by the canvas width
ButtonX == (((DropZone.x * CanvasWidth) \div One
             + ((DropZone.width * CanvasWidth) \div One) \div 2
             + ButtonOffsetPx) * One) \div CanvasWidth
ButtonY == (((DropZone.y * CanvasHeight) \div One) * One) \div CanvasHeight
ButtonWidth == (ButtonWidthPx * One) \div CanvasWidth
ButtonHeight == (ButtonHeightPx * One) \div CanvasHeight

InButton(px, py) ==
    /\ px >= ButtonX - ButtonWidth \div 2
    /\ px <= ButtonX + ButtonWidth \div 2
    /\ py >= ButtonY - ButtonHeight \div 2
    /\ py <= ButtonY + ButtonHeight \div 2

\* 60 / Math.min(canvas width, canvas height)
TableSize == (TableHitPx * One) \div Min(CanvasWidth, CanvasHeight)

\* Mutant of InDropZone: a table on the edge of the zone is outside
InDropZoneExclusive(tx, ty) ==
    /\ tx > DropZone.x - DropZone.width \div 2
    /\ tx < DropZone.x + DropZone.width \div 2
    /\ ty > DropZone.y - DropZone.height \div 2
    /\ ty < DropZone.y + DropZone.height \div 2

InDropZone(tx, ty) ==
    /\ tx >= DropZone.x - DropZone.width \div 2
    /\ tx <= DropZone.x + DropZone.width \div 2
    /\ ty >= DropZone.y - DropZone.height \div 2
    /\ ty <= DropZone.y + DropZone.height \div 2

\* Mutant of Clamp: the upper bound is forgotten
ClampWithoutUpperBound(v) == Max(ClampMin, v)

\* Math.max(0.05, Math.min(0.95, v))
Clamp(v) == Max(ClampMin, Min(ClampMax, v))

\* Mutant of IsPinching: the comparison includes the threshold
IsPinchingInclusive(hand) ==
    DistSq(hand.thumb, hand.index) <= PinchThreshold * PinchThreshold

\* distance < pinchThreshold
IsPinching(hand) == SqrtLess(DistSq(hand.thumb, hand.index), PinchThreshold)

PinchX(hand) == One - (hand.thumb.x + hand.index.x) \div 2
PinchY(hand) == (hand.thumb.y + hand.index.y) \div 2

\* indexTip.y < landmarks[6].y
IndexExtended(hand) == hand.index.y < hand.pip

Includes(seq, e) == \E i \in 1..Len(seq) : seq[i] = e

----------------------------------------------------------------------------
(* Timers and toasts                                                       *)

\* setTimeout(callback, delay).  Timers are kept in creation order; a second
\* timer of the same kind for the same instant runs the same callback on the
\* same state, so it is not kept twice.  A timer due after MaxTime stays
\* pending: the clock of the model stops at MaxTime.
SetTimeout(ts, kind, delay) ==
    LET t == [kind |-> kind, due |-> now + delay]
    IN  IF Includes(ts, t) THEN ts ELSE Append(ts, t)

\* The observation of a tick: all counters zero until the tick does something.
NoTick == [kind |-> "none", hands |-> 0, distSq |-> <<>>, pinching |-> <<>>,
           pinchTransitions |-> 0, swipeTransitions |-> 0, generates |-> 0,
           fetchCalls |-> 0, chartsScheduled |-> 0, dismisses |-> 0,
           moved |-> 0, drop |-> "none", wasTracking |-> FALSE,
           extended |-> FALSE,
           held |-> FALSE, holdGenerates |-> 0,
           returned |-> "none", fallback |-> "none", released |-> 0]

\* showToast(message, type)
ShowToast(s, type) ==
    [s EXCEPT !.toast = type,
              !.timers = SetTimeout(s.timers, "toast", ToastDuration)]

----------------------------------------------------------------------------
(* Data join engine, as far as the caller sees it                          *)

\* name.toLowerCase().includes("event") / includes("registration"), for the
\* table names the hook reports in this model: the set of the names that hold
\* the substring
ContainsEvent(name) == name \in {"events", "event_registrations"}
ContainsRegistration(name) == name \in {"registrations", "event_registrations"}

\* A record of a dataset: the value of its _table field and its keys in
\* insertion order (Object.keys), the key "_table" among them
Row(table, columns) == [table |-> table, columns |-> columns]

\* `${table}_id`, for the table names of this model
IdColumn(table) ==
    CASE table = "users"               -> "users_id"
      [] table = "posts"               -> "posts_id"
      [] table = "comments"            -> "comments_id"
      [] table = "products"            -> "products_id"
      [] table = "orders"              -> "orders_id"
      [] table = "events"              -> "events_id"
      [] table = "registrations"       -> "registrations_id"
      [] table = "event_registrations" -> "event_registrations_id"

\* The columns of the tables in the database of this model
TableColumns(table) ==
    CASE table = "posts"    -> <<"id", "title", "users_id", "created_at">>
      [] table = "comments" -> <<"id", "posts_id", "users_id">>
      [] table = "users"    -> <<"id", "name", "posts_count">>
      [] OTHER              -> <<"id", "name">>

\* supabase.from(table).select("*") with every record tagged with its table
DatabaseRows(table) ==
    LET tagged == Row(table, Append(TableColumns(table), "_table"))
    IN  <<tagged, tagged>>

\* A record of the events-registrations strategy: an event with its id and
\* its registration_count
EventRecord(columns, id, count) ==
    [table |-> "events", columns |-> columns, id |-> id,
     registration_count |-> count]

\* The events and registrations of the database of this model.  events: the
\* ids of the events, in the order a query delivers them.  registrations: the
\* fields among event_id, eventId and events_id each registration has, with
\* their values.  nested: what supabase delivers for the nested select
\* registrations:registrations(count) of each event, a one-entry list
\* holding the count.
Database ==
    LET events == <<0, 1, 2, 7>>
        registrations ==
            << [event_id |-> 1], [eventId |-> 1], [events_id |-> 2],
               [event_id |-> 1], [event_id |-> 0], [events_id |-> 0],
               [event_id |-> 9], [event_id |-> 0, eventId |-> 2] >>
        Key(r) == IF "event_id" \in DOMAIN r THEN r.event_id
                  ELSE IF "eventId" \in DOMAIN r THEN r.eventId
                  ELSE r.events_id
    IN  [events |-> events,
         registrations |-> registrations,
         nested |-> [i \in 1..Len(events) |->
                       <<[count |-> Cardinality(
                             {k \in 1..Len(registrations) :
                                 Key(registrations[k]) = events[i]})]>>]]

\* eventsWithCounts of fetchEventsRegistrationsData: one record per event of
\* the query result, registration_count: event.registrations?.length || 0
EventRows ==
    [i \in 1..Len(Database.events) |->
        EventRecord(<<"id", "title", "name", "registrations",
                      "registration_count", "_table">>,
                    Database.events[i], Len(Database.nested[i]))]

\* eventsWithCounts of fetchSeparateEventsRegistrations: the events with the
\* registrations counted by registration.event_id || registration.eventId ||
\* registration.events_id, a registration being counted when that value is
\* truthy (not 0, not undefined) and the id of an event
SeparateEventRows ==
    LET Value(r, key) == IF key \in DOMAIN r THEN r[key] ELSE 0
        EventId(r) == IF Value(r, "event_id") # 0 THEN Value(r, "event_id")
                      ELSE IF Value(r, "eventId") # 0 THEN Value(r, "eventId")
                      ELSE Value(r, "events_id")
        Counted(id) == {k \in 1..Len(Database.registrations) :
                           /\ EventId(Database.registrations[k]) # 0
                           /\ EventId(Database.registrations[k]) = id}
    IN  [i \in 1..Len(Database.events) |->
            EventRecord(<<"id", "registration_count", "_table">>,
                        Database.events[i],
                        Cardinality(Counted(Database.events[i])))]

\* The records a schema join produces from a query result whose records have
\* the given columns (no columns: the query delivered no records)
JoinRows(table, columns) ==
    IF columns = <<>> THEN <<>>
    ELSE <<Row(table, columns), Row(table, columns)>>

\* Strategy 3 of createJoinQuery: { id, name, count, _table }
CountedColumns == <<"id", "name", "count", "_table">>

\* key.startsWith("_"), f.toLowerCase().includes("title") and
\* f.toLowerCase().includes("name"), for the column names of this model
StartsWithUnderscore(key) == key \in {"_table", "_title"}
ContainsTitle(f) == f \in {"title", "job_title", "_title"}
ContainsName(f) == f \in {"name", "username"}

DateFields == <<"created", "createdAt", "created_at", "updatedAt",
                "updated_at", "date", "timestamp">>

\* fields.find(test): the first field that passes, "none" for undefined
RECURSIVE FindTitle(_)
FindTitle(fields) ==
    IF fields = <<>> THEN "none"
    ELSE IF ContainsTitle(Head(fields)) THEN Head(fields)
    ELSE FindTitle(Tail(fields))

RECURSIVE FindName(_)
FindName(fields) ==
    IF fields = <<>> THEN "none"
    ELSE IF ContainsName(Head(fields)) THEN Head(fields)
    ELSE FindName(Tail(fields))

\* for (const field of dateFields) if (fields.includes(field)) return field
RECURSIVE FindDate(_, _)
FindDate(fields, d) ==
    IF d > Len(DateFields) THEN "none"
    ELSE IF Includes(fields, DateFields[d]) THEN DateFields[d]
    ELSE FindDate(fields, d + 1)

\* Mutant of GetBestXAxisField: name fields are preferred to title fields
GetBestXAxisFieldNameFirst(data) ==
    IF Len(data) = 0 THEN "id"
    ELSE LET fields == SelectSeq(data[1].columns,
                                 LAMBDA key : ~StartsWithUnderscore(key))
         IN  IF FindDate(fields, 1) # "none" THEN FindDate(fields, 1)
             ELSE IF FindName(fields) # "none" THEN FindName(fields)
             ELSE IF FindTitle(fields) # "none" THEN FindTitle(fields)
             ELSE IF Includes(fields, "id") THEN "id"
             ELSE IF fields # <<>> THEN fields[1] ELSE "id"

GetBestXAxisField(data) ==
    IF Len(data) = 0 THEN "id"
    ELSE LET fields == SelectSeq(data[1].columns,
                                 LAMBDA key : ~StartsWithUnderscore(key))
         IN  IF FindDate(fields, 1) # "none" THEN FindDate(fields, 1)
             ELSE IF FindTitle(fields) # "none" THEN FindTitle(fields)
             ELSE IF FindName(fields) # "none" THEN FindName(fields)
             ELSE IF Includes(fields, "id") THEN "id"
             ELSE IF fields # <<>> THEN fields[1] ELSE "id"

\* Array.from({ length: 8 }, ...): the demo events.  draws[i] is the value of
\* Math.floor(Math.random() * 50) for event i.
DemoEventsCount == 8
DemoCountSpan == 50
DemoCountBase == 5
DemoEvents(draws) ==
    [i \in 1..DemoEventsCount |->
        EventRecord(<<"id", "title", "name", "registration_count", "_table">>,
                    i, draws[i] + DemoCountBase)]

\* Mutant of DemoForeignKey: the key is the draw itself
DemoForeignKeyFromZero(draw) == draw

\* Math.floor(Math.random() * 5) + 1, for the value draw of the floor
DemoForeignKey(draw) == draw + 1

\* tableNames.flatMap(... Array.from({ length: 5 }, ...)): the demo records,
\* those of the second of two tables with a foreign key to the first.
\* baseRecord is { id, value, name, title, _table } and keeps the values of
\* its id, name and title; baseRecord[foreignKeyField] = ... makes the field
\* its last key.
\* draws[i] is the value of Math.floor(Math.random() * 5) for record i.
DemoRowsPerTable == 5
RECURSIVE DemoData(_, _, _)
DemoData(tableNames, tableIndex, draws) ==
    IF tableIndex > Len(tableNames) THEN <<>>
    ELSE [i \in 1..DemoRowsPerTable |->
             LET baseRecord ==
                   [table |-> tableNames[tableIndex],
                    columns |-> <<"id", "value", "name", "title", "_table">>,
                    id |-> i,
                    name |-> tableNames[tableIndex] \o " Item " \o ToString(i),
                    title |-> tableNames[tableIndex] \o " Title " \o ToString(i)]
                 foreignKeyField == IdColumn(tableNames[1])
             IN  IF Len(tableNames) = 2 /\ tableIndex = 2
                 THEN (foreignKeyField :> DemoForeignKey(draws[i]))
                      @@ [baseRecord EXCEPT
                            !.columns = Append(baseRecord.columns,
                                               foreignKeyField)]
                 ELSE baseRecord]
         \o DemoData(tableNames, tableIndex + 1, draws)

\* relationships.find(...): some relationship joins the two tables, in
\* either order.  A relationship is a pair <<referencing, referenced>>.
FindSchemaRelationship(table1, table2) ==
    \E rel \in relationships :
        rel = <<table1, table2>> \/ rel = <<table2, table1>>

\* The strategy fetchTableData takes, decided before its first query.
\* createJoinQuery returns null at once when no relationship joins the two
\* tables, and the generic strategy runs.
Strategy(tableNames) ==
    IF /\ \E i \in 1..Len(tableNames) : ContainsEvent(tableNames[i])
       /\ \E i \in 1..Len(tableNames) : ContainsRegistration(tableNames[i])
       /\ Len(tableNames) = 2
    THEN "events"
    ELSE IF /\ Len(tableNames) = 2
            /\ Cardinality(relationships) > 0
            /\ FindSchemaRelationship(tableNames[1], tableNames[2])
         THEN "join"
         ELSE "generic"

\* An invocation of fetchTableData waiting for a query: the names it was
\* given, the strategy stage it is in, the table the generic loop is at, the
\* records in allData so far, and whether every query so far has failed
Fetch(tableNames, stage) ==
    [names |-> tableNames, stage |-> stage, next |-> 1, allData |-> <<>>,
     failed |-> TRUE]

\* fetchTableData(tableNames) up to its first query: the events and generic
\* strategies set loadingData at once, the join strategy awaits createJoinQuery
FetchTableData(s, tableNames) ==
    LET stage == Strategy(tableNames)
    IN  [s EXCEPT !.fetches = Append(s.fetches, Fetch(tableNames, stage)),
                  !.loading = IF stage = "join" THEN s.loading ELSE TRUE,
                  !.obs.fetchCalls = s.obs.fetchCalls + 1]

----------------------------------------------------------------------------
(* Gesture interpreter: one hand of a scene tick                           *)

\* Mutant of GenerateAction: the empty drop zone is not checked
GenerateActionUnchecked(s) ==
    LET clicked == [s EXCEPT !.clicked = TRUE,
                             !.obs.generates = s.obs.generates + 1]
        told    == ShowToast(clicked, "info")
        fetched == FetchTableData(told, s.dropped)
    IN  [fetched EXCEPT
           !.timers = SetTimeout(fetched.timers, "showChart", ChartDelay),
           !.obs.chartsScheduled = fetched.obs.chartsScheduled + 1]

\* The block guarded by !buttonClickedRef.current: the generate action
GenerateAction(s) ==
    LET clicked == [s EXCEPT !.clicked = TRUE,
                             !.obs.generates = s.obs.generates + 1]
    IN  IF Len(s.dropped) = 0
        THEN ShowToast(clicked, "error")
        ELSE LET told    == ShowToast(clicked, "info")
                 fetched == FetchTableData(told, s.dropped)
             IN  [fetched EXCEPT
                    !.timers = SetTimeout(fetched.timers, "showChart", ChartDelay),
                    !.obs.chartsScheduled = fetched.obs.chartsScheduled + 1]

\* Ids of the tables within the hit radius of the pinch centre
TablesHit(s, px, py) ==
    {i \in 1..Len(s.tables) :
        SqrtLess(DistSq([x |-> px, y |-> py], s.tables[i]), TableSize)}

\* for (const table of currentTables) ... break: the first table hit
StartDrag(s, px, py) ==
    LET hit == TablesHit(s, px, py)
    IN  IF hit = {} THEN s
        ELSE LET i == CHOOSE j \in hit : \A k \in hit : j <= k
             IN  [s EXCEPT !.dragged = i, !.tables[i].isDragging = TRUE]

\* Mutant of PinchStart: the tables are tested first, then the button
PinchStartTablesFirst(s, px, py) ==
    LET hit == IF TablesHit(s, px, py) # {} THEN StartDrag(s, px, py)
               ELSE IF InButton(px, py)
               THEN LET hovered == [s EXCEPT !.hover = TRUE]
                    IN  IF ~s.clicked THEN GenerateAction(hovered) ELSE hovered
               ELSE s
    IN  [hit EXCEPT !.pinch = [isPinching |-> TRUE, x |-> px, y |-> py],
                    !.obs.pinchTransitions = hit.obs.pinchTransitions + 1]

\* Pinch start: the button is tested first, then the tables
PinchStart(s, px, py) ==
    LET hit == IF InButton(px, py)
               THEN LET hovered == [s EXCEPT !.hover = TRUE]
                    IN  IF ~s.clicked THEN GenerateAction(hovered) ELSE hovered
               ELSE StartDrag(s, px, py)
    IN  [hit EXCEPT !.pinch = [isPinching |-> TRUE, x |-> px, y |-> py],
                    !.obs.pinchTransitions = hit.obs.pinchTransitions + 1]

\* Continue pinching: translate the dragged table by the movement of the
\* pinch centre and clamp it
PinchMove(s, px, py) ==
    LET moved ==
          IF s.dragged # 0
          THEN LET i  == s.dragged
                   dx == px - s.pinch.x
                   dy == py - s.pinch.y
               IN  [s EXCEPT !.tables[i].x = Clamp(s.tables[i].x + dx),
                             !.tables[i].y = Clamp(s.tables[i].y + dy),
                             !.obs.moved = i]
          ELSE s
    IN  [moved EXCEPT !.pinch = [isPinching |-> TRUE, x |-> px, y |-> py]]

\* Mutant of PushDropped: the name is pushed without the includes test
PushDroppedAlways(dropped, name) == Append(dropped, name)

\* if (!droppedTablesRef.current.includes(name)) push(name)
PushDropped(dropped, name) ==
    IF ~Includes(dropped, name) THEN Append(dropped, name) ELSE dropped

\* The drop test on the table that was dragged
DropTable(s) ==
    LET i == s.dragged
        t == s.tables[i]
        lowered == [s EXCEPT !.tables[i].isDragging = FALSE,
                             !.obs.released = i]
    IN  IF InDropZone(t.x, t.y)
        THEN [lowered EXCEPT
                !.dropped = PushDropped(s.dropped, t.name),
                !.obs.drop = IF Includes(s.dropped, t.name) THEN "present" ELSE "added"]
        ELSE [lowered EXCEPT !.obs.drop = "outside"]

\* Mutant of PinchRelease: the pinch ends but the dragged table is kept
PinchReleaseKeepsDrag(s) ==
    [s EXCEPT !.hover = FALSE, !.clicked = FALSE,
              !.pinch = [isPinching |-> FALSE, x |-> 0, y |-> 0],
              !.obs.pinchTransitions = s.obs.pinchTransitions + 1]

\* Release pinch (the fingers opened)
PinchRelease(s) ==
    LET reset   == [s EXCEPT !.hover = FALSE, !.clicked = FALSE]
        dropped == IF s.dragged # 0
                   THEN [DropTable(reset) EXCEPT !.dragged = 0]
                   ELSE reset
    IN  [dropped EXCEPT !.pinch = [isPinching |-> FALSE, x |-> 0, y |-> 0],
                        !.obs.pinchTransitions = dropped.obs.pinchTransitions + 1]

\* The body of the loop over results.multiHandLandmarks for one hand
ProcessHand(s, hand) ==
    LET after == IF IsPinching(hand)
                 THEN IF ~s.pinch.isPinching
                      THEN PinchStart(s, PinchX(hand), PinchY(hand))
                      ELSE PinchMove(s, PinchX(hand), PinchY(hand))
                 ELSE IF s.pinch.isPinching THEN PinchRelease(s) ELSE s
    IN  [after EXCEPT
           !.obs.distSq = Append(after.obs.distSq, DistSq(hand.thumb, hand.index)),
           !.obs.pinching = Append(after.obs.pinching, after.pinch.isPinching)]

RECURSIVE ProcessHands(_, _)
ProcessHands(s, hands) ==
    IF hands = <<>> THEN s
    ELSE ProcessHands(ProcessHand(s, Head(hands)), Tail(hands))

\* Mutant of HandsLost: the pinch ends but the drag is not released
HandsLostKeepsDrag(s) ==
    [s EXCEPT !.hover = FALSE,
              !.pinch = [isPinching |-> FALSE, x |-> 0, y |-> 0],
              !.obs.pinchTransitions = s.obs.pinchTransitions + 1,
              !.obs.drop = IF s.dragged # 0 THEN "untested" ELSE s.obs.drop]

\* No hands detected while a pinch is in progress
HandsLost(s) ==
    LET lowered == IF s.dragged # 0
                   THEN [s EXCEPT !.tables[s.dragged].isDragging = FALSE,
                                  !.dragged = 0,
                                  !.obs.drop = "untested",
                                  !.obs.released = s.dragged]
                   ELSE s
    IN  [lowered EXCEPT !.hover = FALSE,
                        !.pinch = [isPinching |-> FALSE, x |-> 0, y |-> 0],
                        !.obs.pinchTransitions = lowered.obs.pinchTransitions + 1]

\* The scene branch of renderLoop on the latest landmark frame
SceneTick(s, frame) ==
    IF Len(frame) > 0 THEN ProcessHands(s, frame)
    ELSE IF s.pinch.isPinching THEN HandsLost(s) ELSE s

----------------------------------------------------------------------------
(* Chart animation director and the swipe gesture                          *)

\* hideChartWithAnimation()
HideChartWithAnimation(s) ==
    [s EXCEPT !.animState = "exiting",
              !.animStart = now,
              !.timers = SetTimeout(s.timers, "hideChart", ExitDuration),
              !.obs.dismisses = s.obs.dismisses + 1]

\* Mutant of SwipeCompletes: the horizontal test includes the threshold
SwipeCompletesInclusive(deltaX, deltaY, timeElapsed) ==
    /\ Abs(deltaX) >= SwipeMinDeltaX
    /\ deltaY < SwipeMaxDeltaY
    /\ timeElapsed < SwipeMaxTime

\* Math.abs(deltaX) > 0.3 && deltaY < 0.2 && timeElapsed < 1000
SwipeCompletes(deltaX, deltaY, timeElapsed) ==
    /\ Abs(deltaX) > SwipeMinDeltaX
    /\ deltaY < SwipeMaxDeltaY
    /\ timeElapsed < SwipeMaxTime

\* Mutant of StopTracking: the tracking window is left open
StopTrackingLeavesOpen(s) == s

\* swipeStateRef.current.isTracking = false
StopTracking(s) ==
    [s EXCEPT !.swipe.isTracking = FALSE,
              !.obs.swipeTransitions =
                  s.obs.swipeTransitions + (IF s.swipe.isTracking THEN 1 ELSE 0)]

\* Continue tracking: update the current position, then test for completion
SwipeContinue(s, currentX, currentY) ==
    LET tracked == [s EXCEPT !.swipe.currentX = currentX,
                             !.swipe.currentY = currentY]
        deltaX  == currentX - s.swipe.startX
        deltaY  == Abs(currentY - s.swipe.startY)
        timeElapsed == now - s.swipe.startTime
    IN  IF SwipeCompletes(deltaX, deltaY, timeElapsed)
        THEN StopTracking(HideChartWithAnimation(tracked))
        ELSE IF timeElapsed > SwipeMaxTime THEN StopTracking(tracked) ELSE tracked

\* Mutant of ChartTick: the chart branch also ends the pinch in progress
ChartTickEndsPinch(s, frame) ==
    [StopTracking(s) EXCEPT !.pinch = [isPinching |-> FALSE, x |-> 0, y |-> 0]]

\* The chart branch of renderLoop: only the first hand is read
ChartTick(s, frame) ==
    IF Len(frame) > 0
    THEN LET hand == frame[1]
             currentX == One - hand.index.x
             currentY == hand.index.y
             seen == [s EXCEPT !.obs.wasTracking = s.swipe.isTracking,
                               !.obs.extended = IndexExtended(hand)]
         IN  IF IndexExtended(hand)
             THEN IF ~s.swipe.isTracking
                  THEN [seen EXCEPT
                          !.swipe = [isTracking |-> TRUE,
                                     startX |-> currentX, startY |-> currentY,
                                     currentX |-> currentX, currentY |-> currentY,
                                     startTime |-> now],
                          !.obs.swipeTransitions = s.obs.swipeTransitions + 1]
                  ELSE SwipeContinue(seen, currentX, currentY)
             ELSE StopTracking(seen)
    ELSE s

----------------------------------------------------------------------------
(* Chart view: what renderChartView puts on the chart canvas              *)

\* Fractions, kept in lowest terms (d > 0).  The source computes in IEEE
\* doubles; the fractions are the exact values, rounding is not modelled.
Rat(n, d) == LET g == GCD(Abs(n), d) IN [n |-> n \div g, d |-> d \div g]
RatAdd(a, b) == Rat(a.n * b.d + b.n * a.d, a.d * b.d)
RatSub(a, b) == Rat(a.n * b.d - b.n * a.d, a.d * b.d)
RatMul(a, b) == Rat(a.n * b.n, a.d * b.d)
RatLE(a, b) == a.n * b.d <= b.n * a.d
RatMin(a, b) == IF RatLE(a, b) THEN a ELSE b
RatOne == Rat(1, 1)
RatZero == Rat(0, 1)

\* scale = 0.3 + 0.7 * eased; scale = 1 - 0.7 * eased
ScaleFrom == Rat(3, 10)
ScaleSpan == Rat(7, 10)

\* Mutant of ChartTransform: the exit animation shrinks the chart to nothing
ChartTransformShrinksToZero(animState, elapsed) ==
    IF animState = "exiting"
    THEN LET progress == RatMin(Rat(elapsed, ExitAnimationMs), RatOne)
             rest     == RatSub(RatOne, progress)
         IN  [scale |-> RatMul(rest, rest), opacity |-> RatMul(rest, rest)]
    ELSE [scale |-> RatOne, opacity |-> RatOne]

\* The animation progress block of renderChartView: scale and opacity for the
\* animation state and the time elapsed since chartAnimationStartRef
ChartTransform(animState, elapsed) ==
    IF animState = "entering"
    THEN LET progress == RatMin(Rat(elapsed, EnterAnimationMs), RatOne)
             rest     == RatSub(RatOne, progress)
             eased    == RatSub(RatOne, RatMul(rest, RatMul(rest, rest)))
         IN  [scale |-> RatAdd(ScaleFrom, RatMul(ScaleSpan, eased)),
              opacity |-> eased]
    ELSE IF animState = "exiting"
    THEN LET progress == RatMin(Rat(elapsed, ExitAnimationMs), RatOne)
             rest     == RatSub(RatOne, progress)
             eased    == RatSub(RatOne, RatMul(rest, rest))
         IN  [scale |-> RatSub(RatOne, RatMul(ScaleSpan, eased)),
              opacity |-> RatSub(RatOne, eased)]
    ELSE [scale |-> RatOne, opacity |-> RatOne]

\* col.toLowerCase().includes(table.toLowerCase()), or col equal to
\* `${table}_id` or `${table}id`, for the column and table names of this model
Mentions(col, table) ==
    \/ col = IdColumn(table)
    \/ <<col, table>> \in {<<"posts_count", "posts">>,
                           <<"registrations", "registrations">>,
                           <<"event_registrations_id", "registrations">>}

NoRelationship == [foreignKey |-> "none", referencingTable |-> "none",
                   referencedTable |-> "none"]

\* detectTableRelationships(tableNames, allData): null is NoRelationship
DetectTableRelationships(tableNames, allData) ==
    IF Len(tableNames) # 2 THEN NoRelationship
    ELSE
    LET table1 == tableNames[1]
        table2 == tableNames[2]
        table1Data == SelectSeq(allData, LAMBDA item : item.table = table1)
        table2Data == SelectSeq(allData, LAMBDA item : item.table = table2)
    IN  IF Len(table1Data) = 0 \/ Len(table2Data) = 0 THEN NoRelationship
        ELSE
        LET table1Columns == SelectSeq(table1Data[1].columns,
                                       LAMBDA key : ~StartsWithUnderscore(key))
            table2Columns == SelectSeq(table2Data[1].columns,
                                       LAMBDA key : ~StartsWithUnderscore(key))
            table2RefColumns == SelectSeq(table1Columns,
                                          LAMBDA col : Mentions(col, table2))
            table1RefColumns == SelectSeq(table2Columns,
                                          LAMBDA col : Mentions(col, table1))
        IN  IF Len(table2RefColumns) > 0
            THEN [foreignKey |-> table2RefColumns[1],
                  referencingTable |-> table1, referencedTable |-> table2]
            ELSE IF Len(table1RefColumns) > 0
            THEN [foreignKey |-> table1RefColumns[1],
                  referencingTable |-> table2, referencedTable |-> table1]
            ELSE NoRelationship

\* Mutant of CompareEvents: the comparator sorts ascending
CompareEventsAscending(a, b) == a.registration_count - b.registration_count

\* (a, b) => b.registration_count - a.registration_count
CompareEvents(a, b) == b.registration_count - a.registration_count

\* Array.prototype.sort with the comparator CompareEvents: the sort is stable,
\* so each element goes behind the elements that do not compare after it
RECURSIVE SortEvents(_)
SortEvents(events) ==
    IF events = <<>> THEN <<>>
    ELSE LET sorted == SortEvents(SubSeq(events, 1, Len(events) - 1))
             e == events[Len(events)]
             k == Cardinality({j \in 1..Len(sorted) :
                                  CompareEvents(sorted[j], e) <= 0})
         IN  SubSeq(sorted, 1, k) \o <<e>> \o SubSeq(sorted, k + 1, Len(sorted))

\* Math.min(sortedEvents.length, 20)
MaxEventBars == 20

\* Mutant of RenderEventsRegistrationsChart: the dataset itself is sorted
RenderEventsRegistrationsChartInPlace(data) ==
    LET sortedEvents == SortEvents(data)
        maxItems     == Min(Len(sortedEvents), MaxEventBars)
    IN  [data |-> sortedEvents,
         bars |-> SubSeq(sortedEvents, 1, maxItems)]

\* renderEventsRegistrationsChart on the records of the dataset: the records
\* drawn as bars, left to right, and the records the dataset holds afterwards.
\* filter returns a new array, and it is this array that sort orders in place.
RenderEventsRegistrationsChart(data) ==
    LET events == SelectSeq(data, LAMBDA item :
                               Includes(item.columns, "registration_count"))
        sortedEvents == SortEvents(events)
        maxItems     == Min(Len(sortedEvents), MaxEventBars)
    IN  [data |-> data,
         bars |-> SubSeq(sortedEvents, 1, maxItems)]

\* Mutant of ChartLayout: a detected relationship is ignored
ChartLayoutWithoutRelationship(chart, loading) ==
    IF loading THEN "loading"
    ELSE IF Len(chart.data) = 0 THEN "noData"
    ELSE IF chart.isEventsRegistrations THEN "eventsRegistrations"
    ELSE IF chart.joinType # "none" THEN "schemaJoin"
    ELSE "generic"

\* The layout renderChartView draws for a dataset: "loading" for the loading
\* indicator, "noData" for an empty dataset, else one of the four charts
ChartLayout(chart, loading) ==
    IF loading THEN "loading"
    ELSE IF Len(chart.data) = 0 THEN "noData"
    ELSE IF chart.isEventsRegistrations THEN "eventsRegistrations"
    ELSE IF chart.joinType # "none" THEN "schemaJoin"
    ELSE IF /\ DetectTableRelationships(chart.tables, chart.data) # NoRelationship
            /\ Len(chart.tables) = 2
    THEN "relationship"
    ELSE "generic"

\* String(item[field] || "Unknown").  A record of the model holds the values
\* of some of its columns only; the value of any other column is undefined.
\* The values of name and title columns are strings, all others are numbers.
Text(item, field) ==
    IF field \notin DOMAIN item THEN "Unknown"
    ELSE IF field \in {"name", "title"}
    THEN IF item[field] = "" THEN "Unknown" ELSE item[field]
    ELSE IF item[field] = 0 THEN "Unknown" ELSE ToString(item[field])

\* Grouping in a Map keyed by a label: one group per label, in the order the
\* labels first occur (Map insertion order), each with the number of its
\* occurrences
GroupByValue(labels) ==
    LET firsts == SelectSeq([i \in 1..Len(labels) |-> i],
                            LAMBDA i : \A j \in 1..(i - 1) : labels[j] # labels[i])
    IN  [p \in 1..Len(firsts) |->
            [label |-> labels[firsts[p]],
             value |-> Cardinality({j \in 1..Len(labels) :
                                      labels[j] = labels[firsts[p]]})]]

\* Grouping by day: the records with a truthy date value are grouped by
\* toLocaleDateString("en-US", { month, day }), each group adding up
\* item[yField] || 0 (the schema-join layout) or counting its records (the
\* generic layout, yField "none"), and the groups are sorted by
\* new Date(label).getTime().  A date value is the number of its day in the
\* year (0 for a missing value), and a group's label is that number.
DateGroups(data, xField, yField) ==
    LET dated == SelectSeq(data, LAMBDA item :
                              xField \in DOMAIN item /\ item[xField] # 0)
        Amount(item) == IF yField = "none" THEN 1
                        ELSE IF yField \in DOMAIN item THEN item[yField]
                        ELSE 0
        keys  == {dated[i][xField] : i \in 1..Len(dated)}
        RECURSIVE Sum(_, _)
        Sum(key, i) == IF i = 0 THEN 0
                       ELSE Sum(key, i - 1)
                            + (IF dated[i][xField] = key
                               THEN Amount(dated[i]) ELSE 0)
    IN  [p \in 1..Cardinality(keys) |->
            LET key == CHOOSE k \in keys :
                          Cardinality({j \in keys : j < k}) = p - 1
            IN  [label |-> key, value |-> Sum(key, Len(dated))]]

\* Array.prototype.sort with a comparator (a, b) => b.value - a.value: the
\* sort is stable, so ties keep their order
SortByValue(bars) ==
    LET Position(i) ==
            Cardinality({j \in 1..Len(bars) : bars[j].value > bars[i].value})
            + Cardinality({j \in 1..i : bars[j].value = bars[i].value})
    IN  [p \in 1..Len(bars) |->
            bars[CHOOSE i \in 1..Len(bars) : Position(i) = p]]

\* Math.min(processedData.length, 25), Math.min(relationships.length, 25)
\* and Math.min(groupedData.length, 30)
MaxJoinBars == 25
MaxRelationshipBars == 25
MaxGenericBars == 30

\* renderJoinQueryChart: the bars drawn, left to right.  yField is "count",
\* the y-axis field of strategy 3 and the default.
RenderJoinQueryChart(chart) ==
    LET xField == IF chart.xAxisField = "none" THEN "name" ELSE chart.xAxisField
        Number(item) == IF "count" \in DOMAIN item THEN item.count ELSE 0
        processedData ==
            IF Includes(DateFields, xField)
            THEN DateGroups(chart.data, xField, "count")
            ELSE SortByValue([i \in 1..Len(chart.data) |->
                                [label |-> Text(chart.data[i], xField),
                                 value |-> Number(chart.data[i])]])
        maxItems == Min(Len(processedData), MaxJoinBars)
    IN  SubSeq(processedData, 1, maxItems)

\* renderRelationshipChart: the bars drawn, left to right, one per referenced
\* title with the number of referencing records
RenderRelationshipChart(relationship, allData) ==
    LET referencingData == SelectSeq(allData, LAMBDA item :
                              item.table = relationship.referencingTable)
        referencedData  == SelectSeq(allData, LAMBDA item :
                              item.table = relationship.referencedTable)
        fields == SelectSeq(referencedData[1].columns,
                            LAMBDA key : ~StartsWithUnderscore(key))
        referencedTitleField ==
            IF FindTitle(fields) # "none" THEN FindTitle(fields)
            ELSE IF FindName(fields) # "none" THEN FindName(fields)
            ELSE "id"
        \* ref.id === foreignKeyValue, undefined being equal to undefined
        Refers(item, ref) ==
            IF relationship.foreignKey \in DOMAIN item
            THEN "id" \in DOMAIN ref /\ ref.id = item[relationship.foreignKey]
            ELSE "id" \notin DOMAIN ref
        found == SelectSeq(referencingData, LAMBDA item :
                    \E j \in 1..Len(referencedData) :
                        Refers(item, referencedData[j]))
        ReferencedItem(item) ==
            referencedData[CHOOSE j \in 1..Len(referencedData) :
                /\ Refers(item, referencedData[j])
                /\ \A k \in 1..(j - 1) : ~Refers(item, referencedData[k])]
        ReferencedTitle(ref) ==
            IF Text(ref, referencedTitleField) # "Unknown"
            THEN Text(ref, referencedTitleField)
            ELSE relationship.referencedTable \o " "
                 \o (IF "id" \in DOMAIN ref THEN ToString(ref.id)
                     ELSE "undefined")
        counted ==
            SortByValue(GroupByValue(
                [i \in 1..Len(found) |->
                    ReferencedTitle(ReferencedItem(found[i]))]))
        maxItems == Min(Len(counted), MaxRelationshipBars)
    IN  SubSeq(counted, 1, maxItems)

\* The generic grouped-bar layout of renderChartView: the x-axis field is
\* chosen from the first record, the records are grouped by its value, and
\* groupedData.forEach draws one bar per group
RenderGenericChart(data) ==
    LET keys == data[1].columns
        nameFields == SelectSeq(keys, LAMBDA key :
                                   ContainsName(key) \/ ContainsTitle(key))
        availableFields == SelectSeq(keys, LAMBDA key :
                                   ~StartsWithUnderscore(key) /\ key # "id")
        xAxisField ==
            IF FindDate(keys, 1) # "none" THEN FindDate(keys, 1)
            ELSE IF nameFields # <<>>
            THEN IF FindTitle(nameFields) # "none" THEN FindTitle(nameFields)
                 ELSE nameFields[1]
            ELSE IF Includes(keys, "id") THEN "id"
            ELSE IF availableFields # <<>> THEN availableFields[1]
            ELSE "id"
    IN  IF FindDate(keys, 1) # "none"
        THEN DateGroups(data, xAxisField, "none")
        ELSE GroupByValue([i \in 1..Len(data) |-> Text(data[i], xAxisField)])

\* What a call of renderChartView leaves: the bars drawn, left to right (the
\* records drawn in the events-registrations layout, a label and a value in
\* the others), and the records of the dataset after the call.  The
\* schema-join layout sorts a copy ([...data]) or groups into new objects,
\* the relationship layout reads the two filtered lists of
\* detectTableRelationships, and the generic layout groups into a new Map.
Rendered(chart, loading) ==
    CASE ChartLayout(chart, loading) = "eventsRegistrations" ->
           RenderEventsRegistrationsChart(chart.data)
      [] ChartLayout(chart, loading) = "schemaJoin" ->
           [data |-> chart.data, bars |-> RenderJoinQueryChart(chart)]
      [] ChartLayout(chart, loading) = "relationship" ->
           [data |-> chart.data,
            bars |-> RenderRelationshipChart(
                         DetectTableRelationships(chart.tables, chart.data),
                         chart.data)]
      [] ChartLayout(chart, loading) = "generic" ->
           [data |-> chart.data, bars |-> RenderGenericChart(chart.data)]
      [] OTHER -> [data |-> chart.data, bars |-> <<>>]

\* Nothing drawn yet
NoView == [drawn |-> FALSE, animState |-> "hidden", elapsed |-> 0,
           scale |-> RatOne, opacity |-> RatOne, layout |-> "none",
           relationship |-> NoRelationship, bars |-> <<>>]

----------------------------------------------------------------------------
(* Instances of the tracking effect                                        *)

\* One run of the tracking effect.  phase: "camera" while getUserMedia is
\* awaited, "video" while the video's metadata is awaited, "running" once the
\* loops have been started, "failed" after the catch.  stream is the closure's
\* stream variable ("none" is null).  render: a renderLoop callback is
\* scheduled.  inference: "scheduled" when a processFrame callback is
\* scheduled, "sending" while hands.send is awaited, else "none".  tornDown:
\* the cleanup of this run has been called.
NewEffect == [phase |-> "camera", stream |-> "none", render |-> FALSE,
              inference |-> "none", tornDown |-> FALSE]

\* An instance whose setup has completed and whose loops run
RunningEffect == [phase |-> "running", stream |-> "live", render |-> TRUE,
                  inference |-> "scheduled", tornDown |-> FALSE]

----------------------------------------------------------------------------
(* State                                                                   *)

\* setChartData({ tables: [], data: [] })
EmptyChart == [tables |-> <<>>, data |-> <<>>,
               isEventsRegistrations |-> FALSE, joinType |-> "none",
               xAxisField |-> "none"]

\* TableObjects laid out along the top row
TableObjects(displayTables) ==
    [i \in 1..Len(displayTables) |->
        [name |-> displayTables[i],
         x |-> TableStartX + (i - 1) * TableSpacingX,
         y |-> TableStartY,
         isDragging |-> FALSE]]

Init ==
    /\ availableTables = <<>>
    /\ relationships = {}
    /\ tablesLoading = TRUE
    /\ tablesRef = <<>>
    /\ tablesInitialized = FALSE
    /\ draggedTableRef = 0
    /\ droppedTablesRef = <<>>
    /\ generateButtonHoverRef = FALSE
    /\ buttonClickedRef = FALSE
    /\ pinchStateRef = [isPinching |-> FALSE, x |-> 0, y |-> 0]
    /\ swipeStateRef = [isTracking |-> FALSE, startX |-> 0, startY |-> 0,
                        currentX |-> 0, currentY |-> 0, startTime |-> 0]
    /\ showChart = FALSE
    /\ chartAnimationState = "hidden"
    /\ chartAnimationStartRef = 0
    /\ chartData = EmptyChart
    /\ toast = "none"
    /\ loadingData = FALSE
    /\ now = 0
    /\ timers = <<>>
    /\ fetches = <<>>
    /\ view = NoView
    /\ effects = <<RunningEffect>>
    /\ last = NoTick

----------------------------------------------------------------------------
(* Handlers                                                                *)

\* Mutant of TablesLoaded: the effect lays the tables out on every run
TablesLoadedLaysOutAgain(results) ==
    \E r \in results :
        /\ tablesLoading \/ availableTables # r.tables
        /\ availableTables' = r.tables
        /\ relationships' = r.relationships
        /\ tablesLoading' = FALSE
        /\ tablesRef' = TableObjects(IF Len(r.tables) > 0 THEN r.tables
                                     ELSE DefaultTables)
        /\ tablesInitialized' = TRUE
        /\ last' = NoTick
        /\ UNCHANGED <<effects, view, draggedTableRef, droppedTablesRef, generateButtonHoverRef,
                       buttonClickedRef, pinchStateRef, swipeStateRef,
                       chartVars, toast, loadingData, now, timers, fetches>>

\* useSupabaseTables finishes loading with one of `results`, or reports a
\* list that differs from the one it reported before, and the
\* initialize-tables effect runs
TablesLoaded(results) ==
    \E r \in results :
        /\ tablesLoading \/ availableTables # r.tables
        /\ availableTables' = r.tables
        /\ relationships' = r.relationships
        /\ tablesLoading' = FALSE
        /\ IF ~tablesInitialized
           THEN /\ tablesRef' = TableObjects(IF Len(r.tables) > 0 THEN r.tables
                                             ELSE DefaultTables)
                /\ tablesInitialized' = TRUE
           ELSE UNCHANGED <<tablesRef, tablesInitialized>>
        /\ last' = NoTick
        /\ UNCHANGED <<effects, view, draggedTableRef, droppedTablesRef, generateButtonHoverRef,
                       buttonClickedRef, pinchStateRef, swipeStateRef,
                       chartVars, toast, loadingData, now, timers, fetches>>

\* The state a render tick works on
TickState ==
    [tables |-> tablesRef, dragged |-> draggedTableRef, dropped |-> droppedTablesRef,
     hover |-> generateButtonHoverRef, clicked |-> buttonClickedRef,
     pinch |-> pinchStateRef, swipe |-> swipeStateRef, toast |-> toast,
     timers |-> timers, fetches |-> fetches, loading |-> loadingData,
     animState |-> chartAnimationState, animStart |-> chartAnimationStartRef,
     obs |-> NoTick]

\* Some hand of the frame pinches inside the Generate button
HeldOnButton(frame) ==
    \E i \in 1..Len(frame) :
        IsPinching(frame[i]) /\ InButton(PinchX(frame[i]), PinchY(frame[i]))

\* renderLoop(currentTime) on the frame in handResultsRef.  paced: less than
\* frameInterval has passed since the last drawn frame, so the tick only
\* reschedules itself.  The observation also counts the generate actions of
\* the pinch that consecutive ticks have seen held on the button (up to 2).
Tick(paced, frame) ==
    LET kind  == IF paced THEN "skip" ELSE IF showChart THEN "chart" ELSE "scene"
        ran   == IF paced THEN TickState
                 ELSE IF showChart THEN ChartTick(TickState, frame)
                 ELSE SceneTick(TickState, frame)
        held  == IF paced THEN last.held ELSE HeldOnButton(frame)
    IN  /\ Len(ran.fetches) <= MaxFetches
        /\ tablesRef' = ran.tables
        /\ draggedTableRef' = ran.dragged
        /\ droppedTablesRef' = ran.dropped
        /\ generateButtonHoverRef' = ran.hover
        /\ buttonClickedRef' = ran.clicked
        /\ pinchStateRef' = ran.pinch
        /\ swipeStateRef' = ran.swipe
        /\ toast' = ran.toast
        /\ timers' = ran.timers
        /\ fetches' = ran.fetches
        /\ loadingData' = ran.loading
        /\ chartAnimationState' = ran.animState
        /\ chartAnimationStartRef' = ran.animStart
        /\ last' = [ran.obs EXCEPT
                      !.kind = kind,
                      !.hands = IF paced THEN 0 ELSE Len(frame),
                      !.held = held,
                      !.holdGenerates =
                          IF held
                          THEN Min(2, (IF last.held THEN last.holdGenerates ELSE 0)
                                      + ran.obs.generates)
                          ELSE 0]
        /\ UNCHANGED <<view, hookVars, tablesInitialized, showChart, chartData, now>>

\* Mutant of Reschedules: a paced tick returns without requesting a frame
ReschedulesDrawnOnly(kind) == kind \in {"chart", "scene"}

\* renderAnimationId = requestAnimationFrame(renderLoop) on the way out of a
\* tick: before the return of a paced tick, before the return of the chart
\* branch, and as the last statement of the scene branch
Reschedules(kind) == kind \in {"skip", "chart", "scene"}

\* A scheduled renderLoop callback of an effect instance runs on the frame in
\* handResultsRef
RenderCallback(i, sceneFrames, chartFrames) ==
    /\ effects[i].render
    /\ \/ /\ Tick(TRUE, <<>>)
          /\ effects' = [effects EXCEPT ![i].render = Reschedules("skip")]
       \/ /\ \E frame \in (IF showChart THEN chartFrames ELSE sceneFrames) :
                Tick(FALSE, frame)
          /\ effects' = [effects EXCEPT
                            ![i].render = Reschedules(IF showChart THEN "chart"
                                                      ELSE "scene")]

\* The render loop of the component: the callback of whichever instance has
\* one scheduled
RenderLoopOn(sceneFrames, chartFrames) ==
    \E i \in 1..Len(effects) : RenderCallback(i, sceneFrames, chartFrames)

\* The timer whose callback runs next: the first one created among those due
\* (0 when none is due).  Time never passes a due timer, see Advance.
DueTimer ==
    IF \E i \in 1..Len(timers) : timers[i].due <= now
    THEN CHOOSE i \in 1..Len(timers) :
            /\ timers[i].due <= now
            /\ \A j \in 1..(i - 1) : timers[j].due > now
    ELSE 0

Remove(seq, i) == SubSeq(seq, 1, i - 1) \o SubSeq(seq, i + 1, Len(seq))

\* setTimeout(() => setToast(null), 3000)
ToastTimeout ==
    /\ DueTimer # 0
    /\ timers[DueTimer].kind = "toast"
    /\ toast' = "none"
    /\ timers' = Remove(timers, DueTimer)
    /\ last' = NoTick
    /\ UNCHANGED <<effects, view, hookVars, sceneVars, swipeStateRef, chartVars,
                   loadingData, now, fetches>>

\* setTimeout(() => showChartWithAnimation(), 500)
ShowChartWithAnimation ==
    /\ DueTimer # 0
    /\ timers[DueTimer].kind = "showChart"
    /\ showChart' = TRUE
    /\ chartAnimationState' = "entering"
    /\ chartAnimationStartRef' = now
    /\ timers' = SetTimeout(Remove(timers, DueTimer), "enterDone", EnterDuration)
    /\ last' = NoTick
    /\ UNCHANGED <<effects, view, hookVars, sceneVars, swipeStateRef, chartData,
                   toast, loadingData, now, fetches>>

\* setTimeout(() => setChartAnimationState("visible"), 800)
EnterTimeout ==
    /\ DueTimer # 0
    /\ timers[DueTimer].kind = "enterDone"
    /\ chartAnimationState' = "visible"
    /\ timers' = Remove(timers, DueTimer)
    /\ last' = NoTick
    /\ UNCHANGED <<effects, view, hookVars, sceneVars, swipeStateRef, showChart,
                   chartAnimationStartRef, chartData, toast, loadingData, now,
                   fetches>>

\* Mutant of ExitTimeout: the callback forgets to clear DroppedTables
ExitTimeoutKeepsDrops ==
    /\ DueTimer # 0
    /\ timers[DueTimer].kind = "hideChart"
    /\ showChart' = FALSE
    /\ chartAnimationState' = "hidden"
    /\ chartData' = EmptyChart
    /\ timers' = Remove(timers, DueTimer)
    /\ last' = NoTick
    /\ UNCHANGED <<effects, view, hookVars, sceneVars, swipeStateRef, chartAnimationStartRef,
                   toast, loadingData, now, fetches>>

\* The 600ms callback of hideChartWithAnimation
ExitTimeout ==
    /\ DueTimer # 0
    /\ timers[DueTimer].kind = "hideChart"
    /\ showChart' = FALSE
    /\ chartAnimationState' = "hidden"
    /\ chartData' = EmptyChart
    /\ droppedTablesRef' = <<>>
    /\ timers' = Remove(timers, DueTimer)
    /\ last' = NoTick
    /\ UNCHANGED <<effects, view, hookVars, tablesRef, tablesInitialized, draggedTableRef,
                   generateButtonHoverRef, buttonClickedRef, pinchStateRef,
                   swipeStateRef, chartAnimationStartRef, toast,
                   loadingData, now, fetches>>

\* What the query a fetch is waiting for can come back with.  "rows": the
\* query succeeded and delivered records; "error": it returned an error;
\* "throws": it threw; "null": createJoinQuery gave no result; "noLibrary":
\* the import of the database client failed before the generic loop.
FetchOutcomes(f) ==
    CASE f.stage = "events"   -> {"rows", "error", "throws"}
      [] f.stage = "separate" -> {"rows", "error", "throws"}
      [] f.stage = "join"     -> {"rows", "null"}
      [] f.stage = "generic"  -> {"rows", "error", "throws"}
                                 \cup (IF f.next = 1 THEN {"noLibrary"} ELSE {})

EventsChart(data) ==
    [tables |-> <<"events", "registrations">>, data |-> data,
     isEventsRegistrations |-> TRUE, joinType |-> "none", xAxisField |-> "none"]

\* The random draws a query outcome makes the fetch take: the values of
\* Math.floor(Math.random() * n) for the records of a demo dataset, all
\* lowest, all highest, rising and mixed
RandomDraws(f, outcome) ==
    IF f.stage = "separate" /\ outcome # "rows"
    THEN { [i \in 1..DemoEventsCount |-> 0],
           [i \in 1..DemoEventsCount |-> DemoCountSpan - 1],
           [i \in 1..DemoEventsCount |-> i * 6],
           [i \in 1..DemoEventsCount |-> IF i % 2 = 0 THEN 20 ELSE i] }
    ELSE IF f.stage = "generic" /\ outcome = "noLibrary"
    THEN { [i \in 1..DemoRowsPerTable |-> 0],
           [i \in 1..DemoRowsPerTable |-> DemoRowsPerTable - 1],
           [i \in 1..DemoRowsPerTable |-> i - 1] }
    ELSE {<<>>}

\* Where an outstanding fetch stands after its query came back with outcome
\* (a successful join query with records of the columns `joined`, a fallback
\* to demo data with the random draws `draws`): done with a chart dataset, or
\* waiting for its next query.  loadingData is set when the call ends (false)
\* and when the join strategy gives way to the generic one (true).
FetchStep(f, outcome, joined, draws) ==
    LET got == [f EXCEPT !.failed = f.failed /\ outcome # "rows"]
    IN  CASE f.stage = "events" ->
               IF outcome = "rows"
               THEN [done |-> TRUE, chart |-> EventsChart(EventRows), loading |-> FALSE]
               ELSE [done |-> FALSE, fetch |-> [got EXCEPT !.stage = "separate"],
                     loading |-> loadingData]
          [] f.stage = "separate" ->
               [done |-> TRUE, loading |-> FALSE,
                chart |-> EventsChart(IF outcome = "rows" THEN SeparateEventRows
                                      ELSE DemoEvents(draws))]
          [] f.stage = "join" ->
               IF outcome = "rows"
               THEN [done |-> TRUE, loading |-> FALSE,
                     chart |-> LET data == JoinRows(f.names[1], joined)
                               IN  [tables |-> f.names, data |-> data,
                                    isEventsRegistrations |-> FALSE,
                                    joinType |-> "set",
                                    xAxisField |-> GetBestXAxisField(data)]]
               ELSE [done |-> FALSE, fetch |-> [f EXCEPT !.stage = "generic"],
                     loading |-> TRUE]
          [] f.stage = "generic" ->
               IF outcome = "noLibrary"
               THEN [done |-> TRUE, loading |-> FALSE,
                     chart |-> [tables |-> f.names,
                                data |-> DemoData(f.names, 1, draws),
                                isEventsRegistrations |-> FALSE,
                                joinType |-> "none", xAxisField |-> "none"]]
               ELSE LET allData == IF outcome = "rows"
                                   THEN f.allData \o DatabaseRows(f.names[f.next])
                                   ELSE f.allData
                    IN
               IF f.next < Len(f.names)
               THEN [done |-> FALSE, loading |-> loadingData,
                     fetch |-> [got EXCEPT !.next = f.next + 1,
                                           !.allData = allData]]
               ELSE [done |-> TRUE, loading |-> FALSE,
                     chart |-> [tables |-> f.names,
                                data |-> allData,
                                isEventsRegistrations |-> FALSE,
                                joinType |-> "none", xAxisField |-> "none"]]

\* The query an outstanding fetchTableData call awaits comes back, and the
\* call runs on to its next query or to its end.  joinResults: the column lists
\* a join query of the database can deliver.
FetchReturnsOn(joinResults) ==
    \E i \in 1..Len(fetches) : \E outcome \in FetchOutcomes(fetches[i]) :
      \E joined \in (IF fetches[i].stage = "join" /\ outcome = "rows"
                     THEN joinResults ELSE {<<>>}) :
      \E draws \in RandomDraws(fetches[i], outcome) :
        LET f    == fetches[i]
            step == FetchStep(f, outcome, joined, draws)
        IN  /\ fetches' = IF step.done THEN Remove(fetches, i)
                          ELSE [fetches EXCEPT ![i] = step.fetch]
            /\ loadingData' = step.loading
            /\ chartData' = IF step.done THEN step.chart ELSE chartData
            /\ last' = [NoTick EXCEPT
                          !.returned = IF ~step.done THEN "none"
                                       ELSE IF f.failed /\ outcome # "rows"
                                       THEN "allFailed" ELSE "delivered",
                          !.fallback = IF draws = <<>>
                                       THEN IF f.stage = "separate"
                                            THEN "separateQueries" ELSE "none"
                                       ELSE IF f.stage = "separate"
                                       THEN "demoEvents" ELSE "demoData"]
            /\ UNCHANGED <<effects, view, hookVars, sceneVars, swipeStateRef,
                           showChart, chartAnimationState, chartAnimationStartRef,
                           toast, now, timers>>

FetchReturns == FetchReturnsOn({CountedColumns})

\* The instants after now at which something can change: a timer falls due,
\* or the elapsed time of an open swipe reaches or passes the 1000ms window
Instants ==
    {timers[i].due : i \in 1..Len(timers)}
    \cup (IF swipeStateRef.isTracking
          THEN {swipeStateRef.startTime + SwipeMaxTime,
                swipeStateRef.startTime + SwipeMaxTime + TimeStep}
          ELSE {})

\* Wall-clock time (Date.now()) passes to the next such instant; it never
\* passes a timer that is due before the timer's callback has run
Advance ==
    /\ DueTimer = 0
    /\ \E t \in Instants :
          /\ t > now
          /\ t <= MaxTime
          /\ \A u \in Instants : u > now => t <= u
          /\ now' = t
    /\ last' = NoTick
    /\ UNCHANGED <<effects, view, hookVars, sceneVars, swipeStateRef, chartVars,
                   toast, loadingData, timers, fetches>>

----------------------------------------------------------------------------
(* Specifications                                                          *)

\* The whole component, driven by a user who drags one table, generates
\* and dismisses the chart
Next ==
    \/ TablesLoaded({NoTables})
    \/ RenderLoopOn({<<>>, <<PinchOnTable1>>, <<PinchInZone>>,
                     <<PinchOnButton>>, <<OpenCurled>>},
                    {<<>>, <<SwipeStart>>, <<SwipeFar>>})
    \/ ToastTimeout
    \/ ShowChartWithAnimation
    \/ EnterTimeout
    \/ ExitTimeout
    \/ FetchReturns
    \/ Advance

Spec == Init /\ [][Next]_vars

\* The scene at one instant, worked with one or two hands, for any table list
NextGesture ==
    \/ tablesLoading /\ TablesLoaded(HookResults)
    \/ RenderLoopOn(GestureFrames, {})
    \/ FetchReturns

SpecGesture == Init /\ [][NextGesture]_vars

\* A chart session: the user has dragged "users" into the drop zone, pinched
\* Generate at time 0 and opened the hand, and the 500ms timer has just shown
\* the chart; from there the user swipes at the chart
InitSwipe ==
    /\ availableTables = <<>>
    /\ relationships = {}
    /\ tablesLoading = FALSE
    /\ tablesRef = [TableObjects(DefaultTables) EXCEPT ![1].x = DropZone.x,
                                                        ![1].y = DropZone.y]
    /\ tablesInitialized = TRUE
    /\ draggedTableRef = 0
    /\ droppedTablesRef = <<DefaultTables[1]>>
    /\ generateButtonHoverRef = FALSE
    /\ buttonClickedRef = FALSE
    /\ pinchStateRef = [isPinching |-> FALSE, x |-> 0, y |-> 0]
    /\ swipeStateRef = [isTracking |-> FALSE, startX |-> 0, startY |-> 0,
                        currentX |-> 0, currentY |-> 0, startTime |-> 0]
    /\ showChart = TRUE
    /\ chartAnimationState = "entering"
    /\ chartAnimationStartRef = ChartDelay
    /\ chartData = EmptyChart
    /\ toast = "info"
    /\ loadingData = TRUE
    /\ now = ChartDelay
    /\ timers = <<[kind |-> "toast", due |-> ToastDuration],
                  [kind |-> "enterDone", due |-> ChartDelay + EnterDuration]>>
    /\ fetches = <<Fetch(<<DefaultTables[1]>>, "generic")>>
    /\ view = NoView
    /\ effects = <<RunningEffect>>
    /\ last = NoTick

NextSwipe ==
    \/ RenderLoopOn({}, SwipeFrames)
    \/ ToastTimeout
    \/ EnterTimeout
    \/ ExitTimeout
    \/ FetchReturns
    \/ Advance

SpecSwipe == InitSwipe /\ [][NextSwipe]_vars

----------------------------------------------------------------------------
(* Properties                                                              *)

InVisibleArea(t) ==
    /\ t.x >= ClampMin /\ t.x <= ClampMax
    /\ t.y >= ClampMin /\ t.y <= ClampMax

\* C1: after each hand of a scene tick has been processed, isPinching is true
\* exactly when the thumb-tip/index-tip distance is strictly below 0.05 (the
\* squared distance strictly below 0.0025); at exactly 0.05 it is false.
PinchIffCloserThanThreshold ==
    last.kind = "scene" =>
        \A k \in 1..Len(last.distSq) :
            last.pinching[k] <=> (last.distSq[k] < PinchThreshold * PinchThreshold)

\* A hand at distance exactly 0.05 ended a pinch that was in progress
PinchEndedAtThreshold ==
    /\ last.kind = "scene"
    /\ last.hands = 1
    /\ last.distSq[1] = PinchThreshold * PinchThreshold
    /\ last.pinchTransitions = 1
    /\ ~pinchStateRef.isPinching

\* C2: after a tick that moved the dragged table, whatever the movement of
\* the pinch centre, the table's x and y both lie in [0.05, 0.95].
DraggedTableStaysClamped ==
    last.moved # 0 => InVisibleArea(tablesRef[last.moved])

\* The pinch centre left the visible area and the table stopped at the bound
DragStoppedAtBound ==
    /\ last.moved # 0
    /\ pinchStateRef.isPinching
    /\ pinchStateRef.x > ClampMax
    /\ pinchStateRef.y > ClampMax
    /\ tablesRef[last.moved].x = ClampMax
    /\ tablesRef[last.moved].y = ClampMax

\* C3: in every reachable state every TableObject lies inside
\* [0.05, 0.95] x [0.05, 0.95], for any number of available tables.
TablesInVisibleArea ==
    \A i \in 1..Len(tablesRef) : InVisibleArea(tablesRef[i])

\* C4: on a chart tick with swipe tracking already open and the index finger
\* extended, the chart is dismissed if and only if |currentX - startX| > 0.3
\* and |currentY - startY| < 0.2 and less than 1000ms have elapsed since
\* startTime; at equality of any of the three no dismiss fires.
SwipeFiresIffComplete ==
    (last.kind = "chart" /\ last.wasTracking /\ last.extended) =>
        ( (last.dismisses = 1 /\ chartAnimationState = "exiting")
          <=> ( /\ Abs(swipeStateRef.currentX - swipeStateRef.startX) > SwipeMinDeltaX
                /\ Abs(swipeStateRef.currentY - swipeStateRef.startY) < SwipeMaxDeltaY
                /\ now - swipeStateRef.startTime < SwipeMaxTime ) )

\* A swipe of exactly 0.3, level and in time, did not dismiss the chart
SwipeAtThresholdIgnored ==
    /\ last.kind = "chart" /\ last.wasTracking /\ last.extended
    /\ Abs(swipeStateRef.currentX - swipeStateRef.startX) = SwipeMinDeltaX
    /\ swipeStateRef.currentY = swipeStateRef.startY
    /\ now - swipeStateRef.startTime < SwipeMaxTime
    /\ last.dismisses = 0
    /\ swipeStateRef.isTracking

\* C5: DroppedTables never contains a name twice.
NoDuplicateDrops ==
    \A i, j \in 1..Len(droppedTablesRef) :
        i # j => droppedTablesRef[i] # droppedTablesRef[j]

\* A table whose name is already in DroppedTables was dropped in the zone again
DroppedAgain ==
    /\ last.drop = "present"
    /\ droppedTablesRef # <<>>

\* C6: a generate action taken while DroppedTables is empty shows an error
\* toast, starts no fetch and schedules no chart.
EmptyGenerateOnlyToasts ==
    [][(last'.generates > 0 /\ droppedTablesRef' = <<>>) =>
          /\ toast' = "error"
          /\ fetches' = fetches
          /\ loadingData' = loadingData
          /\ last'.fetchCalls = 0
          /\ last'.chartsScheduled = 0
          /\ \A i \in 1..Len(timers') :
                timers'[i].kind = "showChart" => Includes(timers, timers'[i])]_vars

\* Generate was pinched with an empty drop zone
EmptyGenerateToasted ==
    /\ last.generates > 0
    /\ droppedTablesRef = <<>>
    /\ toast = "error"
    /\ fetches = <<>>

\* C7: while consecutive ticks see a pinch held on the Generate button, the
\* generate action is invoked at most once, for frames of one or two hands.
GenerateOncePerHold == last.holdGenerates <= 1

\* C8: at most one fetchTableData invocation is outstanding at any time.
OneFetchOutstanding == Len(fetches) <= 1

\* C9: one render tick makes at most one pinch transition and at most one
\* swipe transition, for frames of 0, 1 or 2 hands.
OneTransitionPerTick ==
    last.pinchTransitions <= 1 /\ last.swipeTransitions <= 1

\* C10: after a scene tick without hands no pinch is in progress, no table is
\* being dragged and the drag reference is null; when no pinch was in
\* progress the tick changes no gesture or scene state.
HandsLostEndsPinch ==
    [][(last'.kind = "scene" /\ last'.hands = 0) =>
          /\ ~pinchStateRef'.isPinching
          /\ draggedTableRef' = 0
          /\ \A i \in 1..Len(tablesRef') : ~tablesRef'[i].isDragging
          /\ ~pinchStateRef.isPinching =>
                UNCHANGED <<sceneVars, swipeStateRef>>]_vars

\* The hands were lost while a table was being dragged
DragEndedByLostHands ==
    /\ last.kind = "scene"
    /\ last.hands = 0
    /\ last.pinchTransitions = 1
    /\ last.drop = "untested"
    /\ draggedTableRef = 0

\* C11: every name in DroppedTables is the name of a TableObject whose
\* current position lies inside the drop zone rectangle.
DroppedNamesAreInZone ==
    \A k \in 1..Len(droppedTablesRef) :
        \E i \in 1..Len(tablesRef) :
            /\ tablesRef[i].name = droppedTablesRef[k]
            /\ InDropZone(tablesRef[i].x, tablesRef[i].y)

\* C12: a swipe that dismisses the chart sets a timer for 600ms later; time
\* does not pass that instant before the timer's callback has run, and when it
\* has run showChart is false, the animation state is hidden, the chart
\* dataset is empty and DroppedTables is empty.
ChartHiddenAfterExit ==
    [][ /\ last'.dismisses = 1 =>
              Includes(timers', [kind |-> "hideChart", due |-> now + ExitDuration])
        /\ \A i \in 1..Len(timers) :
              timers[i].kind = "hideChart" =>
                  /\ now' <= timers[i].due
                  /\ ~Includes(timers', timers[i]) =>
                        /\ now' = timers[i].due
                        /\ ~showChart'
                        /\ chartAnimationState' = "hidden"
                        /\ chartData' = EmptyChart
                        /\ droppedTablesRef' = <<>> ]_vars

\* The chart of the session has been dismissed and hidden
ChartHidden ==
    /\ ~showChart
    /\ chartAnimationState = "hidden"
    /\ chartData = EmptyChart
    /\ droppedTablesRef = <<>>
    /\ now >= ChartDelay + ExitDuration
    /\ \A i \in 1..Len(timers) : timers[i].kind # "hideChart"

----------------------------------------------------------------------------
(* The chart view on its own                                               *)

\* The chart render effect's callback: renderChartView(ctx) on the state of
\* the render that scheduled it, while the chart is shown
RenderChartView ==
    /\ showChart
    /\ LET elapsed == now - chartAnimationStartRef
           drawn   == ChartTransform(chartAnimationState, elapsed)
       IN  view' = [drawn |-> TRUE, animState |-> chartAnimationState,
                    elapsed |-> elapsed,
                    scale |-> drawn.scale, opacity |-> drawn.opacity,
                    layout |-> ChartLayout(chartData, loadingData),
                    relationship |->
                        IF ChartLayout(chartData, loadingData) = "relationship"
                        THEN DetectTableRelationships(chartData.tables,
                                                      chartData.data)
                        ELSE NoRelationship,
                    bars |-> Rendered(chartData, loadingData).bars]
    /\ chartData' = [chartData EXCEPT
                        !.data = Rendered(chartData, loadingData).data]
    /\ last' = NoTick
    /\ UNCHANGED <<effects, hookVars, sceneVars, swipeStateRef, showChart,
                   chartAnimationState, chartAnimationStartRef, toast,
                   loadingData, now, timers, fetches>>

\* The instants of an animation phase the chart is looked at
ElapsedStep == TimeStep \div 2

\* Date.now() moves on while an animation phase lasts
ChartClock ==
    /\ now - chartAnimationStartRef <= EnterAnimationMs
    /\ now' = now + ElapsedStep
    /\ last' = NoTick
    /\ UNCHANGED <<effects, hookVars, sceneVars, swipeStateRef, chartVars, toast,
                   loadingData, timers, fetches, view>>

\* setChartData({ tables: tableNames, data: allData }) of the generic
\* strategy when every table delivered its records
RECURSIVE AllRows(_)
AllRows(tableNames) ==
    IF tableNames = <<>> THEN <<>>
    ELSE DatabaseRows(Head(tableNames)) \o AllRows(Tail(tableNames))

GenericChart(tableNames, data) ==
    [tables |-> tableNames, data |-> data, isEventsRegistrations |-> FALSE,
     joinType |-> "none", xAxisField |-> "none"]

\* Datasets the data join engine can leave in chartData.  The first are
\* events in the order a query delivered them, with registration counts that
\* rise, fall, tie, are all zero, and of more events than the layout has bars.
ChartDatasets ==
    { EventsChart([i \in 1..Len(counts) |->
                     EventRecord(<<"id", "title", "name", "registrations",
                                   "registration_count", "_table">>,
                                 i, counts[i])]) :
        counts \in { <<0>>, <<1, 3>>, <<3, 1>>, <<2, 7, 7, 0, 5>>, <<0, 0, 0>>,
                     [i \in 1..(MaxEventBars + 2) |-> (i * 7) % 5] } } \cup
    { EmptyChart,
      EventsChart(EventRows),
      EventsChart(DemoEvents([i \in 1..DemoEventsCount |-> i * 6])),
      [tables |-> <<"users", "posts">>,
       data |-> JoinRows("users", CountedColumns),
       isEventsRegistrations |-> FALSE, joinType |-> "set",
       xAxisField |-> GetBestXAxisField(JoinRows("users", CountedColumns))],
      GenericChart(<<"users">>, <<>>),
      GenericChart(<<"users">>, DatabaseRows("users")),
      GenericChart(<<"users", "posts">>, DatabaseRows("posts")),
      GenericChart(<<"users", "posts">>,
                   DemoData(<<"users", "posts">>, 1,
                            [i \in 1..DemoRowsPerTable |-> i - 1])) }
    \cup
    \* schema joins whose records carry counts: rising, tied, more records
    \* than bars, and counts per day of creation
    { [tables |-> <<"users", "posts">>,
       data |-> [i \in 1..Len(counts) |->
                   [table |-> "users", columns |-> CountedColumns,
                    id |-> i, count |-> counts[i]]],
       isEventsRegistrations |-> FALSE, joinType |-> "set",
       xAxisField |-> "name"] :
        counts \in { <<1, 3, 2>>, <<4, 4, 9>>,
                     [i \in 1..(MaxJoinBars + 2) |-> (i * 3) % 7] } } \cup
    { [tables |-> <<"users", "posts">>,
       data |-> [i \in 1..4 |->
                   [table |-> "posts",
                    columns |-> <<"id", "created_at", "count", "_table">>,
                    id |-> i, created_at |-> <<40, 12, 40, 0>>[i],
                    count |-> <<5, 1, 2, 8>>[i]]],
       isEventsRegistrations |-> FALSE, joinType |-> "set",
       xAxisField |-> "created_at"],
      \* one table whose records carry names, a name occurring once before
      \* a name occurring twice
      GenericChart(<<"products">>,
                   [i \in 1..3 |->
                       [table |-> "products", columns |-> <<"id", "name", "_table">>,
                        id |-> i, name |-> <<"bolt", "nut", "nut">>[i]]]),
      \* one table with more records than the generic layout has bars
      GenericChart(<<"orders">>,
                   [i \in 1..(MaxGenericBars + 1) |->
                       [table |-> "orders", columns |-> <<"id", "_table">>,
                        id |-> i]]),
      \* one table whose records carry days of creation
      GenericChart(<<"orders">>,
                   [i \in 1..4 |->
                       [table |-> "orders",
                        columns |-> <<"id", "created_at", "_table">>,
                        id |-> i, created_at |-> <<40, 12, 40, 0>>[i]]]),
      \* demo data whose foreign keys fall on few records of the first table
      GenericChart(<<"users", "posts">>,
                   DemoData(<<"users", "posts">>, 1, <<0, 4, 4, 1, 4>>)),
      \* more referenced records than the relationship layout has bars
      GenericChart(<<"users", "posts">>,
                   [i \in 1..(2 * (MaxRelationshipBars + 1)) |->
                       IF i <= MaxRelationshipBars + 1
                       THEN [table |-> "users", columns |-> <<"id", "_table">>,
                             id |-> i]
                       ELSE [table |-> "posts",
                             columns |-> <<"id", "users_id", "_table">>,
                             id |-> i,
                             users_id |-> i - (MaxRelationshipBars + 1)]]) }
    \cup { GenericChart(names, AllRows(names)) :
             names \in { <<"users", "posts">>, <<"posts", "users">>,
                         <<"posts", "comments">>, <<"comments", "posts">>,
                         <<"users", "products">>,
                         <<"users", "posts", "comments">> } }

\* A shown chart in any animation phase, the phase having just begun
InitChartView ==
    /\ availableTables = <<>>
    /\ relationships = {}
    /\ tablesLoading = FALSE
    /\ tablesRef = TableObjects(DefaultTables)
    /\ tablesInitialized = TRUE
    /\ draggedTableRef = 0
    /\ droppedTablesRef = <<DefaultTables[1]>>
    /\ generateButtonHoverRef = FALSE
    /\ buttonClickedRef = FALSE
    /\ pinchStateRef = [isPinching |-> FALSE, x |-> 0, y |-> 0]
    /\ swipeStateRef = [isTracking |-> FALSE, startX |-> 0, startY |-> 0,
                        currentX |-> 0, currentY |-> 0, startTime |-> 0]
    /\ showChart = TRUE
    /\ chartAnimationState \in {"entering", "visible", "exiting"}
    /\ chartAnimationStartRef = 0
    /\ chartData \in ChartDatasets
    /\ toast = "none"
    /\ loadingData \in BOOLEAN
    /\ now = 0
    /\ timers = <<>>
    /\ fetches = <<>>
    /\ view = NoView
    /\ effects = <<RunningEffect>>
    /\ last = NoTick

NextChartView == RenderChartView \/ ChartClock

SpecChartView == InitChartView /\ [][NextChartView]_vars

\* C13: the transform renderChartView computes is scale 0.3 and opacity 0 for
\* entering at elapsed 0, scale 1 and opacity 1 for entering at elapsed >= 800
\* and for visible, scale 0.3 and opacity 0 for exiting at elapsed >= 600;
\* scale stays in [0.3, 1] and opacity in [0, 1]; over the elapsed time of a
\* phase both grow while entering and both shrink while exiting.
ChartTransformAsStated ==
    view.drawn =>
        /\ RatLE(ScaleFrom, view.scale) /\ RatLE(view.scale, RatOne)
        /\ RatLE(RatZero, view.opacity) /\ RatLE(view.opacity, RatOne)
        /\ (view.animState = "entering" /\ view.elapsed = 0) =>
              (view.scale = ScaleFrom /\ view.opacity = RatZero)
        /\ (view.animState = "entering" /\ view.elapsed >= EnterAnimationMs) =>
              (view.scale = RatOne /\ view.opacity = RatOne)
        /\ (view.animState = "exiting" /\ view.elapsed >= ExitAnimationMs) =>
              (view.scale = ScaleFrom /\ view.opacity = RatZero)
        /\ view.animState = "visible" =>
              (view.scale = RatOne /\ view.opacity = RatOne)
        /\ \A earlier \in {e \in 0..view.elapsed : e % ElapsedStep = 0} :
              LET before == ChartTransform(view.animState, earlier)
              IN  /\ view.animState = "entering" =>
                        /\ RatLE(before.scale, view.scale)
                        /\ RatLE(before.opacity, view.opacity)
                  /\ view.animState = "exiting" =>
                        /\ RatLE(view.scale, before.scale)
                        /\ RatLE(view.opacity, before.opacity)

\* The chart was drawn half-way through its exit animation
DrawnWhileExiting ==
    /\ view.drawn
    /\ view.animState = "exiting"
    /\ view.elapsed * 2 = ExitAnimationMs
    /\ view.scale = Rat(19, 40)
    /\ view.opacity = Rat(1, 4)

----------------------------------------------------------------------------
(* The data join engine on its own                                         *)

\* Lists of names the user can have dropped before pinching Generate
DropLists == {<<"users">>, <<"events">>, <<"events", "registrations">>,
              <<"registrations", "events">>, <<"users", "posts">>,
              <<"posts", "comments">>, <<"users", "posts", "comments">>,
              <<"event_registrations", "users">>}

\* Frames of a user pinching Generate and letting go
FetchFrames == {<<PinchOnButton>>, <<OpenCurled>>}

\* The tables are loaded and the user has dragged the tables of one of the
\* DropLists into the drop zone.  The hook has reported one of HookResults or
\* a database that keeps the registrations of its events in one table.
InitFetch ==
    /\ \E r \in HookResults \cup
                { [tables |-> <<"event_registrations", "users", "posts">>,
                   relationships |-> {<<"posts", "users">>}] } :
          /\ availableTables = r.tables
          /\ relationships = r.relationships
    /\ tablesLoading = FALSE
    /\ droppedTablesRef \in DropLists
    /\ LET displayTables == IF Len(availableTables) > 0 THEN availableTables
                            ELSE DefaultTables
           laidOut == TableObjects(displayTables)
       IN  /\ \A k \in 1..Len(droppedTablesRef) :
                 Includes(displayTables, droppedTablesRef[k])
           /\ tablesRef = [i \in 1..Len(laidOut) |->
                             IF Includes(droppedTablesRef, laidOut[i].name)
                             THEN [laidOut[i] EXCEPT !.x = DropZone.x,
                                                     !.y = DropZone.y]
                             ELSE laidOut[i]]
    /\ tablesInitialized = TRUE
    /\ draggedTableRef = 0
    /\ generateButtonHoverRef = FALSE
    /\ buttonClickedRef = FALSE
    /\ pinchStateRef = [isPinching |-> FALSE, x |-> 0, y |-> 0]
    /\ swipeStateRef = [isTracking |-> FALSE, startX |-> 0, startY |-> 0,
                        currentX |-> 0, currentY |-> 0, startTime |-> 0]
    /\ showChart = FALSE
    /\ chartAnimationState = "hidden"
    /\ chartAnimationStartRef = 0
    /\ chartData = EmptyChart
    /\ toast = "none"
    /\ loadingData = FALSE
    /\ now = 0
    /\ timers = <<>>
    /\ fetches = <<>>
    /\ view = NoView
    /\ effects = <<RunningEffect>>
    /\ last = NoTick

FetchRenderLoop == RenderLoopOn(FetchFrames, {})

NextFetch == FetchRenderLoop \/ FetchReturns

SpecFetch == InitFetch /\ [][NextFetch]_vars

\* C14: when every query of a fetchTableData invocation failed (returned an
\* error or threw), the invocation ends with a non-empty chart dataset.
FailedFetchLeavesRecords ==
    last.returned = "allFailed" => Len(chartData.data) > 0

----------------------------------------------------------------------------
(* The tracking effect: setup, loops and teardown                          *)

\* getUserMedia resolves: the stream is kept and set as the video's source.
\* Another instance still waiting for the video's metadata loses its
\* onloadedmetadata handler to this one and waits for ever ("stalled").
CameraGranted(i) ==
    /\ effects[i].phase = "camera"
    /\ effects' = [j \in 1..Len(effects) |->
                      IF j = i
                      THEN [effects[j] EXCEPT !.phase = "video", !.stream = "live"]
                      ELSE IF effects[j].phase = "video"
                      THEN [effects[j] EXCEPT !.phase = "stalled"]
                      ELSE effects[j]]

\* getUserMedia rejects: the catch of setupCamera ends the setup
CameraDenied(i) ==
    /\ effects[i].phase = "camera"
    /\ effects' = [effects EXCEPT ![i].phase = "failed"]

\* The video's metadata is loaded: the detector is created, processFrame()
\* and renderLoop(0) are called.  processFrame sends the frame when the video
\* is ready (readyState 4) and else schedules itself; renderLoop(0) is inside
\* the frame interval and only schedules itself.
VideoReady(i) ==
    /\ effects[i].phase = "video"
    /\ \E started \in {"sending", "scheduled"} :
          effects' = [effects EXCEPT ![i].phase = "running",
                                     ![i].render = TRUE,
                                     ![i].inference = started]

\* A scheduled processFrame callback runs
ProcessFrame(i) ==
    /\ effects[i].inference = "scheduled"
    /\ \E next \in {"sending", "scheduled"} :
          effects' = [effects EXCEPT ![i].inference = next]

\* hands.send resolves and processFrame schedules its next callback
InferenceSent(i) ==
    /\ effects[i].inference = "sending"
    /\ effects' = [effects EXCEPT ![i].inference = "scheduled"]

\* The cleanup of a run: cancelAnimationFrame of both ids, and the tracks of
\* the stream are stopped when the closure holds a stream
Cleanup(e) ==
    [e EXCEPT !.tornDown = TRUE,
              !.render = FALSE,
              !.inference = IF e.inference = "scheduled" THEN "none"
                            ELSE e.inference,
              !.stream = IF e.stream = "live" THEN "stopped" ELSE e.stream]

\* A dependency of the effect changes (a new cameraId from the parent):
\* React calls the cleanup of the current run and runs the effect again
EffectRerun ==
    /\ Len(effects) < MaxEffects
    /\ effects' = Append([effects EXCEPT ![Len(effects)] = Cleanup(effects[Len(effects)])],
                         NewEffect)
    /\ last' = NoTick
    /\ UNCHANGED <<view, hookVars, sceneVars, swipeStateRef, chartVars, toast,
                   loadingData, now, timers, fetches>>

\* The steps of setupCamera and of the inference loop of one instance
SetupStep ==
    /\ \E i \in 1..Len(effects) :
          \/ CameraGranted(i)
          \/ CameraDenied(i)
          \/ VideoReady(i)
          \/ ProcessFrame(i)
          \/ InferenceSent(i)
    /\ last' = NoTick
    /\ UNCHANGED <<view, hookVars, sceneVars, swipeStateRef, chartVars, toast,
                   loadingData, now, timers, fetches>>

\* The tables are laid out, nothing is dropped, nothing has been shown
SceneLoaded ==
    /\ availableTables = <<>>
    /\ relationships = {}
    /\ tablesLoading = FALSE
    /\ tablesRef = TableObjects(DefaultTables)
    /\ tablesInitialized = TRUE
    /\ draggedTableRef = 0
    /\ droppedTablesRef = <<>>
    /\ generateButtonHoverRef = FALSE
    /\ buttonClickedRef = FALSE
    /\ pinchStateRef = [isPinching |-> FALSE, x |-> 0, y |-> 0]
    /\ swipeStateRef = [isTracking |-> FALSE, startX |-> 0, startY |-> 0,
                        currentX |-> 0, currentY |-> 0, startTime |-> 0]
    /\ showChart = FALSE
    /\ chartAnimationState = "hidden"
    /\ chartAnimationStartRef = 0
    /\ chartData = EmptyChart
    /\ toast = "none"
    /\ loadingData = FALSE
    /\ now = 0
    /\ timers = <<>>
    /\ fetches = <<>>
    /\ view = NoView
    /\ last = NoTick

\* The component has just mounted: the first run of the effect has begun
InitEffect == SceneLoaded /\ effects = <<NewEffect>>

NextEffect ==
    \/ SetupStep
    \/ RenderLoopOn({<<>>, <<OpenCurled>>}, {<<>>, <<OpenCurled>>})
    \/ EffectRerun

SpecEffect == InitEffect /\ [][NextEffect]_vars

\* C15: once the cleanup of an effect instance has been called, that instance
\* has no render-loop or inference-loop callback scheduled and its camera
\* stream is not live; at most one instance has loops running.
TornDownEffectIsDead ==
    /\ \A i \in 1..Len(effects) :
          effects[i].tornDown =>
              /\ ~effects[i].render
              /\ effects[i].inference # "scheduled"
              /\ effects[i].stream # "live"
    /\ Cardinality({i \in 1..Len(effects) : effects[i].render}) <= 1
    /\ Cardinality({i \in 1..Len(effects) : effects[i].inference # "none"}) <= 1

----------------------------------------------------------------------------
(* Toasts over time                                                        *)

\* Time passes by a third of a toast's life while no timer falls due
Elapse ==
    LET later == now + ToastDuration \div 3
    IN  /\ later <= MaxTime
        /\ \A i \in 1..Len(timers) : timers[i].due >= later
        /\ now' = later
        /\ last' = NoTick
        /\ UNCHANGED <<effects, view, hookVars, sceneVars, swipeStateRef,
                       chartVars, toast, loadingData, timers, fetches>>

\* The scene with an empty drop zone, the user pinching Generate and letting
\* go again and again: every generate action shows a toast
NextToast == RenderLoopOn(FetchFrames, {}) \/ ToastTimeout \/ Elapse

InitToast == SceneLoaded /\ effects = <<RunningEffect>>

SpecToast == InitToast /\ [][NextToast]_vars

\* C16: no toast is dismissed earlier than 3000ms after the showToast call
\* that showed it: when the toast is dismissed, no timer of a later showToast
\* call is still waiting.
ToastLastsItsDuration ==
    [][(toast # "none" /\ toast' = "none") =>
          \A i \in 1..Len(timers) :
              timers[i].kind = "toast" => timers[i].due <= now]_vars

\* C17: fetchTableData takes the events-registrations strategy exactly when it
\* is given exactly two names of which one contains "event" and the other
\* contains "registration".
EventsStrategyIffEventAndRegistration ==
    \A i \in 1..Len(fetches) :
        LET names == fetches[i].names
        IN  fetches[i].stage \in {"events", "separate"}
            <=> /\ Len(names) = 2
                /\ \/ ContainsEvent(names[1]) /\ ContainsRegistration(names[2])
                   \/ ContainsRegistration(names[1]) /\ ContainsEvent(names[2])

----------------------------------------------------------------------------
(* The x-axis field of a schema join                                       *)

\* Column lists of the first record a join query can deliver (<<>>: no record)
AxisInputs ==
    { <<>>,
      CountedColumns,
      <<"id", "name", "email", "title", "created", "createdAt", "created_at",
        "date", "activity_count", "_table">>,
      <<"id", "name", "title", "updated_at", "created_at", "item_count", "_table">>,
      <<"timestamp", "date", "_table">>,
      <<"id", "username", "job_title", "_table">>,
      <<"id", "username", "count", "_table">>,
      <<"count", "id", "_table">>,
      <<"_table", "_title", "count", "value">>,
      <<"_table", "_title">> }

NextAxis == FetchRenderLoop \/ FetchReturnsOn(AxisInputs)

\* The user has dropped two tables that a schema relationship joins
InitAxis == InitFetch /\ Strategy(droppedTablesRef) = "join"

SpecAxis == InitAxis /\ [][NextAxis]_vars

\* The fields of the first record that getBestXAxisField may return
VisibleFields(data) ==
    {data[1].columns[k] : k \in 1..Len(data[1].columns)}
    \ {f \in {data[1].columns[k] : k \in 1..Len(data[1].columns)} :
          StartsWithUnderscore(f)}

\* The position of the first occurrence of a field in the first record
FieldPosition(data, f) ==
    CHOOSE k \in 1..Len(data[1].columns) :
        /\ data[1].columns[k] = f
        /\ \A j \in 1..(k - 1) : data[1].columns[j] # f

\* C19: for a non-empty record list getBestXAxisField returns the earliest
\* name of the date list that is a field of the first record; else the first
\* field containing "title"; else the first containing "name"; else "id" if
\* it is a field; else the first field not starting with "_".  A field
\* starting with "_" is never returned, and an empty list yields "id".
BestXAxisFieldByPrecedence ==
    chartData.joinType = "set" =>
        LET data   == chartData.data
            best   == chartData.xAxisField
            fields == VisibleFields(data)
            dates  == {d \in 1..Len(DateFields) : DateFields[d] \in fields}
            titles == {f \in fields : ContainsTitle(f)}
            names  == {f \in fields : ContainsName(f)}
            FirstOf(candidates) ==
                /\ best \in candidates
                /\ \A f \in candidates :
                      FieldPosition(data, best) <= FieldPosition(data, f)
        IN  IF Len(data) = 0 THEN best = "id"
            ELSE /\ ~StartsWithUnderscore(best)
                 /\ IF dates # {}
                    THEN \E d \in dates : /\ best = DateFields[d]
                                          /\ \A e \in dates : d <= e
                    ELSE IF titles # {} THEN FirstOf(titles)
                    ELSE IF names # {} THEN FirstOf(names)
                    ELSE IF "id" \in fields THEN best = "id"
                    ELSE fields # {} => FirstOf(fields)

\* A join delivered records with a name field before a title field and no
\* date field, and the title field became the x-axis field
TitlePreferredToName ==
    /\ chartData.joinType = "set"
    /\ Len(chartData.data) > 0
    /\ chartData.data[1].columns = <<"id", "username", "job_title", "_table">>
    /\ chartData.xAxisField = "job_title"

----------------------------------------------------------------------------
(* Relationship detection and layout selection                             *)

\* C18: when the first record of exactly one of two tables has the column
\* <other>_id, detectTableRelationships returns that table as referencing
\* table, the other as referenced table and that column as foreign key, and
\* the same in the opposite order of the names, whatever other columns exist.
DetectionFindsIdColumn ==
    (view.drawn /\ view.layout \in {"relationship", "generic"}
                /\ Len(chartData.tables) = 2) =>
        LET table1 == chartData.tables[1]
            table2 == chartData.tables[2]
            FirstRecordColumns(data, table) ==
                LET tableData == SelectSeq(data, LAMBDA item : item.table = table)
                IN  IF Len(tableData) = 0 THEN <<>> ELSE tableData[1].columns
            has1 == Includes(FirstRecordColumns(chartData.data, table1),
                             IdColumn(table2))
            has2 == Includes(FirstRecordColumns(chartData.data, table2),
                             IdColumn(table1))
            expected == IF has1
                        THEN [foreignKey |-> IdColumn(table2),
                              referencingTable |-> table1,
                              referencedTable |-> table2]
                        ELSE [foreignKey |-> IdColumn(table1),
                              referencingTable |-> table2,
                              referencedTable |-> table1]
        IN  (/\ has1 # has2
             /\ FirstRecordColumns(chartData.data, table1) # <<>>
             /\ FirstRecordColumns(chartData.data, table2) # <<>>) =>
                /\ view.relationship = expected
                /\ DetectTableRelationships(<<table2, table1>>, chartData.data)
                      = expected

\* C20: for a non-empty dataset that is not loading renderChartView draws the
\* events-registrations layout if the dataset is flagged isEventsRegistrations;
\* else the schema-join layout if joinType is set; else the relationship
\* layout if there are exactly two tables and detectTableRelationships finds a
\* relationship; else the generic layout.
LayoutChosenInOrder ==
    (view.drawn /\ ~loadingData /\ Len(chartData.data) > 0) =>
        /\ chartData.isEventsRegistrations =>
              view.layout = "eventsRegistrations"
        /\ (~chartData.isEventsRegistrations /\ chartData.joinType = "set") =>
              view.layout = "schemaJoin"
        /\ (~chartData.isEventsRegistrations /\ chartData.joinType = "none") =>
              LET found ==
                    /\ Len(chartData.tables) = 2
                    /\ DetectTableRelationships(chartData.tables, chartData.data)
                          # NoRelationship
              IN  /\ found => view.layout = "relationship"
                  /\ ~found => view.layout = "generic"

\* Two tables of which one references the other were drawn as a relationship
RelationshipDrawn ==
    /\ view.drawn
    /\ ~loadingData
    /\ chartData.tables = <<"posts", "comments">>
    /\ view.layout = "relationship"
    /\ view.relationship.foreignKey = "posts_id"

----------------------------------------------------------------------------
(* What the layouts draw and what they leave of the dataset                *)

\* C21: the events-registrations layout draws its bars in non-increasing
\* registration_count order whatever the order of the records in the dataset:
\* the bars are the first 20 (or all) of the events, no event left out has a
\* higher count than a bar, and no bar is followed by a bar of a higher count.
BarsInDescendingOrder ==
    (view.drawn /\ view.layout = "eventsRegistrations") =>
        LET bars == view.bars
            data == chartData.data
        IN  /\ Len(bars) = Min(Len(data), MaxEventBars)
            /\ \A i, j \in 1..Len(bars) :
                  i < j => /\ bars[i].registration_count
                              >= bars[j].registration_count
                           /\ bars[i].id # bars[j].id
            /\ \A i \in 1..Len(bars) : Includes(data, bars[i])
            /\ \A k \in 1..Len(data) :
                  ~Includes(bars, data[k]) =>
                      \A i \in 1..Len(bars) :
                          bars[i].registration_count
                              >= data[k].registration_count

\* A dataset whose counts rise was drawn with the highest count first
RisingCountsDrawnFalling ==
    /\ view.drawn
    /\ view.layout = "eventsRegistrations"
    /\ Len(chartData.data) = 2
    /\ chartData.data[1].registration_count < chartData.data[2].registration_count
    /\ view.bars = <<chartData.data[2], chartData.data[1]>>

\* C22: renderChartView never mutates the dataset: in each of the four
\* layouts the record list of chartData holds after the call the same records
\* in the same order and with the same field values as before it.
RenderingKeepsDataset ==
    [][(view' # view) => chartData' = chartData]_vars

\* The events-registrations layout drew its bars in another order than the
\* dataset holds its records, and the dataset holds them as it did
BarsReorderedDatasetKept ==
    /\ view.drawn
    /\ view.layout = "eventsRegistrations"
    /\ Len(view.bars) = Len(chartData.data)
    /\ view.bars # chartData.data
    /\ chartData.data[1].id = 1

----------------------------------------------------------------------------
(* The demo data of the generic strategy                                   *)

\* C30: the demo fallback of the generic strategy for n tables holds exactly 5
\* records per table, each tagged with its table, with the ids 1..5; for
\* exactly two tables every record of the second table has a field
\* <firstTable>_id whose value is the id of a record of the first table, and
\* no record of the first table has that field.
DemoDataAsStated ==
    last.fallback = "demoData" =>
        LET names == chartData.tables
            data  == chartData.data
            RecordsOf(all, table) ==
                SelectSeq(all, LAMBDA item : item.table = table)
        IN  /\ Len(data) = DemoRowsPerTable * Len(names)
            /\ \A k \in 1..Len(names) :
                  LET records == RecordsOf(data, names[k])
                  IN  /\ Len(records) = DemoRowsPerTable
                      /\ \A i \in 1..Len(records) : records[i].id = i
            /\ Len(names) = 2 =>
                  LET foreignKey == IdColumn(names[1])
                      first  == RecordsOf(data, names[1])
                      second == RecordsOf(data, names[2])
                  IN  /\ \A i \in 1..Len(second) :
                            /\ Includes(second[i].columns, foreignKey)
                            /\ \E j \in 1..Len(first) :
                                  first[j].id = second[i][foreignKey]
                      /\ \A j \in 1..Len(first) :
                            /\ ~Includes(first[j].columns, foreignKey)
                            /\ foreignKey \notin DOMAIN first[j]

\* The fallback produced demo data for two tables, the last record of the
\* second table referencing the last record of the first
DemoDataForTwoTables ==
    /\ last.fallback = "demoData"
    /\ Len(chartData.tables) = 2
    /\ Len(chartData.data) = 2 * DemoRowsPerTable
    /\ chartData.data[2 * DemoRowsPerTable][IdColumn(chartData.tables[1])]
          = DemoRowsPerTable

----------------------------------------------------------------------------
(* Dragging a table to the drop zone and letting go                        *)

\* Frames of a user who drags the first table to the drop zone, onto its
\* corner or to a place beside it (further from the corner than a table's hit
\* radius), pinches Generate, opens the hand or loses tracking
DropFrames ==
    {<<>>, <<PinchOnTable1>>, <<PinchInZone>>,
     <<PinchAt(DropZone.x - DropZone.width \div 2,
               DropZone.y - DropZone.height \div 2)>>,
     <<PinchAt(DropZone.x - DropZone.width \div 2 - 2 * TableSize,
               DropZone.y - DropZone.height \div 2)>>,
     <<PinchOnButton>>, <<OpenCurled>>, <<PinchOnTable1, OpenCurled>>}

NextDrop ==
    \/ RenderLoopOn(DropFrames, {})
    \/ FetchReturns
    \/ TablesLoaded(HookResults)

SpecDrop == Init /\ [][NextDrop]_vars

\* C23: a scene tick in which opening fingers end a pinch that drags a table
\* appends the table's name to DroppedTables exactly when the table's position
\* is inside the drop zone rectangle, bounds included, and the name is not yet
\* present, and otherwise leaves DroppedTables as it was; when the tick ends
\* with no pinch in progress the table's isDragging is false and the drag
\* reference is null.
ReleaseDropsInsideZone ==
    [][(last'.kind = "scene" /\ last'.drop \in {"added", "present", "outside"}) =>
          LET t == tablesRef'[last'.released]
              inside == /\ 2 * Abs(t.x - DropZone.x) <= DropZone.width
                        /\ 2 * Abs(t.y - DropZone.y) <= DropZone.height
          IN  /\ droppedTablesRef' =
                    IF inside /\ ~Includes(droppedTablesRef, t.name)
                    THEN Append(droppedTablesRef, t.name)
                    ELSE droppedTablesRef
              /\ ~pinchStateRef'.isPinching =>
                    (~t.isDragging /\ draggedTableRef' = 0)]_vars

\* A table let go on the corner of the drop zone was recorded as dropped
DroppedOnZoneCorner ==
    /\ last.kind = "scene"
    /\ last.drop = "added"
    /\ tablesRef[last.released].x = DropZone.x - DropZone.width \div 2
    /\ tablesRef[last.released].y = DropZone.y - DropZone.height \div 2
    /\ droppedTablesRef = <<tablesRef[last.released].name>>
    /\ draggedTableRef = 0

\* C24: a scene tick in which lost hands end a pinch that drags a table
\* applies the drop test: when the table's position is inside the drop zone
\* rectangle and its name is not in DroppedTables, the name is appended.
LostHandsDropInsideZone ==
    [][(last'.kind = "scene" /\ last'.drop = "untested") =>
          LET t == tablesRef'[last'.released]
              inside == /\ 2 * Abs(t.x - DropZone.x) <= DropZone.width
                        /\ 2 * Abs(t.y - DropZone.y) <= DropZone.height
          IN  (inside /\ ~Includes(droppedTablesRef, t.name)) =>
                  droppedTablesRef' = Append(droppedTablesRef, t.name)]_vars

\* C25: whenever no pinch is in progress, so after every pinch end, by opening
\* fingers or by lost hands, the button-hover flag and the button-clicked
\* latch are both false.
LatchesResetAfterPinchEnd ==
    ~pinchStateRef.isPinching =>
        (~generateButtonHoverRef /\ ~buttonClickedRef)

----------------------------------------------------------------------------
(* The cycle of the chart animation state                                  *)

\* C26: the chart animation state moves along hidden, entering, visible,
\* exiting, hidden only: once it is exiting its next value is hidden, never
\* entering or visible again, whenever the swipe came during the entrance
\* animation or after it.
AnimationStateFollowsCycle ==
    [][ /\ chartAnimationState = "hidden" =>
              chartAnimationState' \in {"hidden", "entering"}
        /\ chartAnimationState = "entering" =>
              chartAnimationState' \in {"entering", "visible", "exiting"}
        /\ chartAnimationState = "visible" =>
              chartAnimationState' \in {"visible", "exiting"}
        /\ chartAnimationState = "exiting" =>
              chartAnimationState' \in {"exiting", "hidden"} ]_vars

\* C27: in every reachable state showChart is false exactly when the chart
\* animation state is hidden.
ShowChartIffNotHidden ==
    ~showChart <=> chartAnimationState = "hidden"

\* C28: a fetch that completes after its chart has been dismissed has its
\* result discarded: while the chart is hidden after the dismissal and no new
\* generate action has been taken, the chart dataset holds no records.
LateFetchResultDiscarded ==
    (/\ chartAnimationState = "hidden"
     /\ \A i \in 1..Len(timers) : timers[i].kind # "showChart") =>
        Len(chartData.data) = 0

----------------------------------------------------------------------------
(* The loading state while the chart opens                                 *)

\* From the generate action to the open chart: the user pinches Generate and
\* lets go, the queries return, and the 500ms timer shows the chart
NextLoading ==
    \/ FetchRenderLoop
    \/ FetchReturns
    \/ ShowChartWithAnimation
    \/ EnterTimeout
    \/ ToastTimeout
    \/ Advance

\* The hook has reported seven tables and their relationships, and the user
\* has dropped tables for one of the three strategies
InitLoading ==
    /\ InitFetch
    /\ availableTables = SevenTables
    /\ droppedTablesRef \in {<<"users">>, <<"events", "registrations">>,
                             <<"users", "posts">>}

SpecLoading == InitLoading /\ [][NextLoading]_vars

\* C29: whenever the chart is shown while a fetchTableData invocation is
\* outstanding, loadingData is true, for every strategy; and whenever an
\* invocation completes, loadingData is false.
LoadingWhileFetching ==
    [][ /\ (showChart' /\ fetches' # <<>>) => loadingData'
        /\ Len(fetches') < Len(fetches) => ~loadingData' ]_vars

----------------------------------------------------------------------------
(* The registration counts of the events-registrations strategy            *)

\* C31: in the fallback with two full-table fetches each event's
\* registration_count is the number of registrations whose foreign key equals
\* the event's id, the key being read from event_id, else eventId, else
\* events_id, for all ids and key values, the id 0 included; there is one
\* record per event.
SeparateCountsMatchKeys ==
    last.fallback = "separateQueries" =>
        LET Key(r) == IF "event_id" \in DOMAIN r THEN r.event_id
                      ELSE IF "eventId" \in DOMAIN r THEN r.eventId
                      ELSE r.events_id
            data == chartData.data
        IN  /\ Len(data) = Len(Database.events)
            /\ \A i \in 1..Len(data) :
                  /\ data[i].id = Database.events[i]
                  /\ data[i].registration_count =
                        Cardinality({k \in 1..Len(Database.registrations) :
                                        Key(Database.registrations[k]) = data[i].id})

\* C32: in the preferred path with one nested query the dataset holds one
\* record per event returned, and each record's registration_count is the
\* count the nested aggregate reports for the event: a one-entry list holding
\* {count: n} yields n.
NestedCountIsReported ==
    (last.returned = "delivered" /\ last.fallback = "none"
                                 /\ chartData.isEventsRegistrations) =>
        /\ Len(chartData.data) = Len(Database.events)
        /\ \A i \in 1..Len(chartData.data) :
              /\ chartData.data[i].id = Database.events[i]
              /\ Len(Database.nested[i]) = 1 =>
                    chartData.data[i].registration_count
                        = Database.nested[i][1].count

----------------------------------------------------------------------------
(* The bars of the four chart layouts                                      *)

\* C33: in every layout the number of bars drawn is min(number of items,
\* cap), the cap being 20 for the events-registrations layout, 25 for the
\* schema-join and the relationship layout and 30 for the generic grouped-bar
\* layout; no layout draws more bars than its cap.
BarsWithinCap ==
    view.drawn =>
        LET cap == CASE view.layout = "eventsRegistrations" -> MaxEventBars
                     [] view.layout = "schemaJoin"          -> MaxJoinBars
                     [] view.layout = "relationship"        -> MaxRelationshipBars
                     [] view.layout = "generic"             -> MaxGenericBars
                     [] OTHER                               -> 0
            labels == {chartData.data[i].id : i \in 1..Len(chartData.data)}
        IN  /\ Len(view.bars) <= cap
            /\ (view.layout = "generic" /\ chartData.tables = <<"orders">>
                  /\ ~Includes(chartData.data[1].columns, "created_at"))
                  => Len(view.bars) = Min(Cardinality(labels), cap)
            /\ (view.layout = "schemaJoin" /\ chartData.xAxisField = "name")
                  => Len(view.bars) = Min(Len(chartData.data), cap)

\* C34: in the schema-join, the relationship and the generic grouped-bar
\* layout the bars are drawn in non-increasing order of value, except when
\* the records are grouped by a date field: then the day buckets are drawn in
\* chronological order.
BarsInValueOrder ==
    (view.drawn /\ view.layout \in {"schemaJoin", "relationship", "generic"}) =>
        LET byDate == IF view.layout = "schemaJoin"
                      THEN Includes(DateFields, chartData.xAxisField)
                      ELSE /\ view.layout = "generic"
                           /\ FindDate(chartData.data[1].columns, 1) # "none"
        IN  \A i \in 1..(Len(view.bars) - 1) :
               IF byDate THEN view.bars[i].label < view.bars[i + 1].label
               ELSE view.bars[i].value >= view.bars[i + 1].value

----------------------------------------------------------------------------
(* Scene ticks and chart ticks of one session                              *)

\* A session: the first two tables lie in the drop zone and have been
\* dropped, the first on the zone's edge beside the Generate button, the
\* second half a hit radius to the left of the place the user grabs at; the
\* user pinches Generate (until a fetch has been started), grabs at the
\* tables, swipes at the chart, with one or two hands in view or none
InitSession ==
    /\ availableTables = <<>>
    /\ relationships = {}
    /\ tablesLoading = FALSE
    /\ tablesRef = [TableObjects(DefaultTables) EXCEPT
                        ![1].x = DropZone.x + DropZone.width \div 2,
                        ![1].y = DropZone.y,
                        ![2].x = DropZone.x + DropZone.width \div 2 - TableSize,
                        ![2].y = DropZone.y]
    /\ tablesInitialized = TRUE
    /\ draggedTableRef = 0
    /\ droppedTablesRef = <<DefaultTables[1], DefaultTables[2]>>
    /\ generateButtonHoverRef = FALSE
    /\ buttonClickedRef = FALSE
    /\ pinchStateRef = [isPinching |-> FALSE, x |-> 0, y |-> 0]
    /\ swipeStateRef = [isTracking |-> FALSE, startX |-> 0, startY |-> 0,
                        currentX |-> 0, currentY |-> 0, startTime |-> 0]
    /\ showChart = FALSE
    /\ chartAnimationState = "hidden"
    /\ chartAnimationStartRef = 0
    /\ chartData = EmptyChart
    /\ toast = "none"
    /\ loadingData = FALSE
    /\ now = 0
    /\ timers = <<>>
    /\ fetches = <<>>
    /\ view = NoView
    /\ effects = <<RunningEffect>>
    /\ last = NoTick

NextSession ==
    \/ LET PinchOnTables == PinchAt(DropZone.x + DropZone.width \div 2
                                       - TableSize \div 2, DropZone.y)
       IN  RenderLoopOn({<<>>, <<PinchOnTables>>, <<OpenCurled>>,
                         <<PinchOnTables, OpenCurled>>}
                        \cup (IF fetches = <<>> THEN {<<PinchOnButton>>} ELSE {}),
                        {<<>>, <<SwipeStart>>, <<SwipeFar>>, <<OpenCurled>>,
                         <<PinchOnTables>>, <<SwipeStart, PinchOnTables>>})
    \/ ShowChartWithAnimation
    \/ EnterTimeout
    \/ ExitTimeout
    \/ Advance

SpecSession == InitSession /\ [][NextSession]_vars

\* C35: while the component is mounted every path through a render tick (a
\* paced skip, a chart tick, a scene tick, with no, one or two hands) ends
\* with the next tick scheduled; a tick that arrives less than 1000/30 ms
\* after the last drawn frame does no work and still reschedules.
TickEndsRescheduled ==
    [][last'.kind \in {"skip", "chart", "scene"} =>
          /\ \E i \in 1..Len(effects') :
                effects'[i].render /\ ~effects'[i].tornDown
          /\ last'.kind = "skip" =>
                UNCHANGED <<sceneVars, swipeStateRef, chartVars, toast,
                            loadingData, timers, fetches, view, now>>]_vars

\* A chart tick with two hands in view has run and the loop is scheduled
ChartTickWithTwoHandsRan ==
    /\ last.kind = "chart"
    /\ last.hands = 2
    /\ effects[1].render

PinchStartTestsButtonFirst ==
    [][(/\ last'.kind = "scene"
        /\ last'.hands = 1
        /\ ~pinchStateRef.isPinching
        /\ pinchStateRef'.isPinching) =>
          LET px == pinchStateRef'.x
              py == pinchStateRef'.y
              inside == /\ 2 * Abs(px - ButtonX) <= 2 * (ButtonWidth \div 2)
                        /\ 2 * Abs(py - ButtonY) <= 2 * (ButtonHeight \div 2)
              near == {i \in 1..Len(tablesRef) :
                          (px - tablesRef[i].x) * (px - tablesRef[i].x)
                          + (py - tablesRef[i].y) * (py - tablesRef[i].y)
                             < TableSize * TableSize}
              dragging == {i \in 1..Len(tablesRef') : tablesRef'[i].isDragging}
          IN  IF inside \/ near = {}
              THEN draggedTableRef' = 0 /\ dragging = {}
              ELSE /\ draggedTableRef' \in near
                   /\ \A i \in near : draggedTableRef' <= i
                   /\ dragging = {draggedTableRef'}]_vars

\* A pinch has started inside the Generate button with the first table within
\* the hit radius of its centre: the generate action ran and nothing is dragged
PinchedButtonBesideTable ==
    /\ last.kind = "scene"
    /\ last.hands = 1
    /\ last.generates = 1
    /\ pinchStateRef.isPinching
    /\ InButton(pinchStateRef.x, pinchStateRef.y)
    /\ TablesHit(TickState, pinchStateRef.x, pinchStateRef.y) # {}
    /\ draggedTableRef = 0

----------------------------------------------------------------------------
(* The tables of the scene                                                 *)

\* C39: in every reachable state at most one TableObject has isDragging
\* true, a table has isDragging true exactly when it is the one the drag
\* reference names, and a non-null drag reference implies that
\* PinchState.isPinching is true; with no, one or two hands in view and
\* across a chart session.  (A table's id is its place in creation order.)
DragStateConsistent ==
    /\ Cardinality({i \in 1..Len(tablesRef) : tablesRef[i].isDragging}) <= 1
    /\ \A i \in 1..Len(tablesRef) :
          tablesRef[i].isDragging <=> draggedTableRef = i
    /\ draggedTableRef \in 0..Len(tablesRef)
    /\ draggedTableRef # 0 => pinchStateRef.isPinching

\* A table grabbed before the chart was shown is still being dragged in a
\* scene tick after the chart has been dismissed and hidden
DragOutlastsChartSession ==
    /\ last.kind = "scene"
    /\ last.hands = 1
    /\ last.pinchTransitions = 0
    /\ draggedTableRef # 0
    /\ chartAnimationState = "hidden"
    /\ now >= ChartDelay + ExitDuration
    /\ droppedTablesRef = <<>>

\* C40: the TableObjects are created exactly once; afterwards the set of
\* tables and every table's id (its place in creation order) and name never
\* change, whatever the gestures and whatever list of available tables is
\* reported later, and a tick changes the position of the dragged table only.
TablesCreatedOnce ==
    [][/\ ~tablesInitialized => tablesRef = <<>>
       /\ tablesInitialized =>
             /\ tablesInitialized'
             /\ Len(tablesRef') = Len(tablesRef)
             /\ \A i \in 1..Len(tablesRef) :
                   /\ tablesRef'[i].name = tablesRef[i].name
                   /\ (tablesRef'[i].x # tablesRef[i].x
                          \/ tablesRef'[i].y # tablesRef[i].y) =>
                         /\ last'.kind = "scene"
                         /\ i \in {draggedTableRef, draggedTableRef'}]_vars

\* The default tables were laid out, the list of available tables changed
\* afterwards, and a tick has moved the dragged table
DraggedAfterListChanged ==
    /\ tablesInitialized
    /\ Len(availableTables) > Len(tablesRef)
    /\ last.kind = "scene"
    /\ last.moved # 0
    /\ draggedTableRef = last.moved
    /\ \A i \in 1..Len(tablesRef) : tablesRef[i].name = DefaultTables[i]

====
